---- MODULE Spec2Model ----
(***************************************************************************)
(* Model of the daily-planner Telegram bot: the per-user conversation     *)
(* engine, the confirmation gate, the task lifecycle service over the     *)
(* task store, and the monthly recurrence window.                          *)
(*                                                                         *)
(* Conventions                                                             *)
(*   - a Go pointer / optional value is a sequence of length 0 or 1;       *)
(*   - a text is a sequence of runes; an ASCII rune is the one-character   *)
(*     string, a Cyrillic letter is "~x" (lower case) or "~X" (upper       *)
(*     case) with x its transliteration, a pictogram is "#name";           *)
(*   - an instant (time.Time) is a number of hours since 1970-01-01 00:00  *)
(*     in one fixed-offset location (the process's time.Local).            *)
(***************************************************************************)
EXTENDS Integers, Sequences, FiniteSets, TLC

VARIABLES
    conversations,  \* Bot.conversations: user -> optional conversationState
    confirmations,  \* Bot.confirmations: user -> optional confirmationRequest
    tasks,          \* the tasks table: a set of model.Task rows
    categories,     \* the categories table: a set of model.Category rows
    users,          \* the users table: the ids of the rows upserted so far
    nextTaskID,     \* the next autoincrement id of the tasks table
    nextCategoryID, \* the next autoincrement id of the categories table
    now,            \* the wall clock read by time.Now()
    ev              \* history: the last update processed and what it did

vars == <<conversations, confirmations, tasks, categories, users,
          nextTaskID, nextCategoryID, now, ev>>

----------------------------------------------------------------------------
(* Bounds of the model.                                                    *)

NumUsers == 2      \* users that talk to the bot
MaxTasks == 1      \* tasks a conversation run may add to the store
MaxWindow == 2     \* largest window radius of the recurrence runs
MaxClock == 1      \* index of the last clock point of the interaction runs
MaxHalfDays == 76  \* 12-hour steps of the clock of the recurrence cycle runs

(* Program constants.                                                      *)

HoursPerDay == 24       \* 24 * time.Hour
MinRecurDay == 1
MaxRecurDay == 31
MinRecurWindow == 0
MaxRecurWindow == 14

Users == 1..NumUsers

----------------------------------------------------------------------------
(* Go's time package, as far as the program uses it: time.Date with its    *)
(* normalisation of out-of-range months and days, Time.Date(), AddDate.    *)

Min2(a, b) == IF a < b THEN a ELSE b

\* days from 1970-01-01 to the civil date y-m-d (proleptic Gregorian)
DaysFromCivil(y, m, d) ==
    LET yy  == IF m <= 2 THEN y - 1 ELSE y
        era == yy \div 400
        yoe == yy - era * 400
        mp  == (m + 9) % 12
        doy == (153 * mp + 2) \div 5 + d - 1
        doe == yoe * 365 + yoe \div 4 - yoe \div 100 + doy
    IN  era * 146097 + doe - 719468

\* the civil date of a day number
CivilFromDays(z) ==
    LET zz  == z + 719468
        era == zz \div 146097
        doe == zz - era * 146097
        yoe == (doe - doe \div 1460 + doe \div 36524 - doe \div 146096) \div 365
        doy == doe - (365 * yoe + yoe \div 4 - yoe \div 100)
        mp  == (5 * doy + 2) \div 153
        d   == doy - (153 * mp + 2) \div 5 + 1
        m   == IF mp < 10 THEN mp + 3 ELSE mp - 9
        y   == yoe + era * 400 + (IF m <= 2 THEN 1 ELSE 0)
    IN  [year |-> y, month |-> m, day |-> d]

\* time.Date(year, month, day, hour, 0, 0, 0, loc): month and day may be
\* outside their ranges and are normalised (month 13 is January of the next
\* year, day 0 is the last day of the month before).
GoDate(year, month, day, hour) ==
    LET y == year + (month - 1) \div 12
        m == ((month - 1) % 12) + 1
    IN  (DaysFromCivil(y, m, 1) + (day - 1)) * HoursPerDay + hour

TimeDate(t) == CivilFromDays(t \div HoursPerDay)   \* t.Date()
TimeYear(t) == TimeDate(t).year                     \* t.Year()
TimeMonth(t) == TimeDate(t).month                   \* t.Month()
TimeDay(t) == TimeDate(t).day                       \* t.Day()
TimeHour(t) == t % HoursPerDay                      \* t.Hour()

\* t.AddDate(years, months, days)
AddDate(t, years, months, days) ==
    GoDate(TimeYear(t) + years, TimeMonth(t) + months, TimeDay(t) + days,
           TimeHour(t))

\* daysInMonth without the step to the next month: the first of the month,
\* rolled back a day
daysInMonthRolledBack(month, year) ==
    LET firstOfMonth == GoDate(year, month, 1, 0)
        lastOfMonth  == AddDate(firstOfMonth, 0, 0, -1)
    IN  TimeDay(lastOfMonth)

\* daysInMonth: the first of the next month, rolled back a day
daysInMonth(month, year) ==
    LET firstOfMonth     == GoDate(year, month, 1, 0)
        firstOfNextMonth == AddDate(firstOfMonth, 0, 1, 0)
        lastOfMonth      == AddDate(firstOfNextMonth, 0, 0, -1)
    IN  TimeDay(lastOfMonth)

----------------------------------------------------------------------------
(* Texts: strings.TrimSpace, strings.ToLower, strconv.Atoi,                *)
(* strconv.ParseUint, time.Parse, strings.HasPrefix / TrimPrefix.          *)

IsSpace(r) == r \in {" ", "\t", "\n", "\r"}

RECURSIVE TrimLeft(_)
TrimLeft(s) ==
    IF s # <<>> /\ IsSpace(Head(s)) THEN TrimLeft(Tail(s)) ELSE s

RECURSIVE TrimRight(_)
TrimRight(s) ==
    IF s # <<>> /\ IsSpace(s[Len(s)])
    THEN TrimRight(SubSeq(s, 1, Len(s) - 1))
    ELSE s

TrimSpace(s) == TrimRight(TrimLeft(s))

ToLowerRune(r) ==
    CASE r = "Y" -> "y" [] r = "E" -> "e" [] r = "S" -> "s"
      [] r = "N" -> "n" [] r = "O" -> "o" [] r = "K" -> "k"
      [] r = "I" -> "i" [] r = "P" -> "p"
      [] r = "~D" -> "~d" [] r = "~A" -> "~a" [] r = "~N" -> "~n"
      [] r = "~E" -> "~e" [] r = "~T" -> "~t" [] r = "~O" -> "~o"
      [] r = "~P" -> "~p" [] r = "~Z" -> "~z" [] r = "~K" -> "~k"
      [] OTHER -> r

\* strings.ToLower that lowers the Latin letters only
ToLowerLatin(s) ==
    [i \in 1..Len(s) |->
        IF s[i] \in {"Y", "E", "S", "N", "O", "K", "I", "P"}
        THEN ToLowerRune(s[i]) ELSE s[i]]

ToLower(s) == [i \in 1..Len(s) |-> ToLowerRune(s[i])]

Digits == <<"0", "1", "2", "3", "4", "5", "6", "7", "8", "9">>
IsDigit(r) == \E i \in 1..10 : Digits[i] = r
DigitVal(r) == (CHOOSE i \in 1..10 : Digits[i] = r) - 1

AllDigits(s) == s # <<>> /\ \A i \in 1..Len(s) : IsDigit(s[i])

RECURSIVE DecimalVal(_)
DecimalVal(s) ==
    IF s = <<>> THEN 0
    ELSE DecimalVal(SubSeq(s, 1, Len(s) - 1)) * 10 + DigitVal(s[Len(s)])

\* strconv.Atoi: an optional sign, then decimal digits
AtoiDigits(s) == IF s # <<>> /\ Head(s) \in {"+", "-"} THEN Tail(s) ELSE s
AtoiOk(s) == AllDigits(AtoiDigits(s))
AtoiVal(s) ==
    IF s # <<>> /\ Head(s) = "-"
    THEN 0 - DecimalVal(AtoiDigits(s))
    ELSE DecimalVal(AtoiDigits(s))

\* strconv.ParseUint(s, 10, 64): decimal digits only
ParseUintOk(s) == AllDigits(s)
ParseUintVal(s) == DecimalVal(s)

\* time.Parse("2006-01-02", s): four digits, two digits, two digits, a real
\* calendar day, nothing after it
DateLayoutOk(s) ==
    /\ Len(s) = 10
    /\ s[5] = "-" /\ s[8] = "-"
    /\ \A i \in {1, 2, 3, 4, 6, 7, 9, 10} : IsDigit(s[i])

DateYear(s) == DecimalVal(SubSeq(s, 1, 4))
DateMonth(s) == DecimalVal(SubSeq(s, 6, 7))
DateDay(s) == DecimalVal(SubSeq(s, 9, 10))

ParseDateOk(s) ==
    /\ DateLayoutOk(s)
    /\ DateMonth(s) \in 1..12
    /\ DateDay(s) >= 1
    /\ DateDay(s) <= daysInMonth(DateMonth(s), DateYear(s))

ParseDateVal(s) == GoDate(DateYear(s), DateMonth(s), DateDay(s), 0)

HasPrefix(s, prefix) ==
    Len(s) >= Len(prefix) /\ SubSeq(s, 1, Len(prefix)) = prefix

TrimPrefix(s, prefix) ==
    IF HasPrefix(s, prefix) THEN SubSeq(s, Len(prefix) + 1, Len(s)) ELSE s

----------------------------------------------------------------------------
(* model.Task and the recurrence window.                                   *)

Monthly == <<"m", "o", "n", "t", "h", "l", "y">>

\* a recurring row as TaskService.CreateTask stores it
RecurringTask(id, owner, day, window, last) ==
    [ID |-> id, UserID |-> owner, CategoryID |-> <<>>, Title |-> <<"t">>,
     Description |-> <<>>, Deadline |-> <<>>, IsCompleted |-> FALSE,
     IsRecurring |-> TRUE, RecurType |-> Monthly, RecurDay |-> day,
     RecurWindow |-> window, LastCompletedAt |-> last, CreatedAt |-> 0]

\* ReminderService.recurringDue, the day it takes as due in now's month
recurringDueDay(task, t) ==
    LET endOfMonth == daysInMonth(TimeMonth(t), TimeYear(t))
    IN  IF task.RecurDay > endOfMonth THEN endOfMonth ELSE task.RecurDay

recurringDueDate(task, t) ==
    GoDate(TimeYear(t), TimeMonth(t), recurringDueDay(task, t), 0)

\* recurringDue with a window that runs to the end of its last day
recurringDueWholeDay(task, t) ==
    IF ~task.IsRecurring \/ ToLower(task.RecurType) # Monthly
       \/ task.RecurDay <= 0
    THEN FALSE
    ELSE LET dueDate == recurringDueDate(task, t)
             window  == task.RecurWindow * HoursPerDay
             start   == dueDate - window
             end     == dueDate + window + HoursPerDay
         IN  IF t < start \/ t >= end
             THEN FALSE
             ELSE IF /\ task.LastCompletedAt # <<>>
                     /\ ~(task.LastCompletedAt[1] < start)
                     /\ ~(task.LastCompletedAt[1] > end)
                     /\ TimeMonth(task.LastCompletedAt[1]) = TimeMonth(t)
                     /\ TimeYear(task.LastCompletedAt[1]) = TimeYear(t)
                  THEN FALSE
                  ELSE TRUE

\* recurringDue with a window that is open at its end
recurringDueHalfOpen(task, t) ==
    IF ~task.IsRecurring \/ ToLower(task.RecurType) # Monthly
       \/ task.RecurDay <= 0
    THEN FALSE
    ELSE LET dueDate == recurringDueDate(task, t)
             window  == task.RecurWindow * HoursPerDay
             start   == dueDate - window
             end     == dueDate + window
         IN  IF t < start \/ t >= end
             THEN FALSE
             ELSE IF /\ task.LastCompletedAt # <<>>
                     /\ ~(task.LastCompletedAt[1] < start)
                     /\ ~(task.LastCompletedAt[1] > end)
                     /\ TimeMonth(task.LastCompletedAt[1]) = TimeMonth(t)
                     /\ TimeYear(task.LastCompletedAt[1]) = TimeYear(t)
                  THEN FALSE
                  ELSE TRUE

\* recurringDue that takes a task as satisfied once it was marked in the
\* month and year of now, inside the window or not
recurringDueSatisfiedInMonth(task, t) ==
    IF ~task.IsRecurring \/ ToLower(task.RecurType) # Monthly
       \/ task.RecurDay <= 0
    THEN FALSE
    ELSE LET dueDate == recurringDueDate(task, t)
             window  == task.RecurWindow * HoursPerDay
         IN  IF t < dueDate - window \/ t > dueDate + window
             THEN FALSE
             ELSE ~(/\ task.LastCompletedAt # <<>>
                    /\ TimeMonth(task.LastCompletedAt[1]) = TimeMonth(t)
                    /\ TimeYear(task.LastCompletedAt[1]) = TimeYear(t))

\* ReminderService.recurringDue
recurringDue(task, t) ==
    IF ~task.IsRecurring \/ ToLower(task.RecurType) # Monthly
       \/ task.RecurDay <= 0
    THEN FALSE
    ELSE LET dueDate == recurringDueDate(task, t)
             window  == task.RecurWindow * HoursPerDay
             start   == dueDate - window
             end     == dueDate + window
         IN  IF t < start \/ t > end
             THEN FALSE
             ELSE IF /\ task.LastCompletedAt # <<>>
                     /\ ~(task.LastCompletedAt[1] < start)
                     /\ ~(task.LastCompletedAt[1] > end)
                     /\ TimeMonth(task.LastCompletedAt[1]) = TimeMonth(t)
                     /\ TimeYear(task.LastCompletedAt[1]) = TimeYear(t)
                  THEN FALSE
                  ELSE TRUE

\* isRecurringDoneInWindow (bot), the day it takes as due in now's month
doneInWindowDueDay(task, t) ==
    LET endOfMonth == TimeDay(GoDate(TimeYear(t), TimeMonth(t) + 1, 0, 0))
    IN  IF task.RecurDay > endOfMonth THEN endOfMonth ELSE task.RecurDay

\* isRecurringDoneInWindow without the comparison of month and year
isRecurringDoneInWindowAnyMonth(task, t) ==
    IF ~task.IsRecurring \/ task.LastCompletedAt = <<>>
    THEN FALSE
    ELSE LET dueDate == GoDate(TimeYear(t), TimeMonth(t),
                               doneInWindowDueDay(task, t), 0)
             window  == task.RecurWindow * HoursPerDay
             last    == task.LastCompletedAt[1]
         IN  ~(last < dueDate - window \/ last > dueDate + window)

\* isRecurringDoneInWindow
isRecurringDoneInWindow(task, t) ==
    IF ~task.IsRecurring \/ task.LastCompletedAt = <<>>
    THEN FALSE
    ELSE LET dueDate == GoDate(TimeYear(t), TimeMonth(t),
                               doneInWindowDueDay(task, t), 0)
             window  == task.RecurWindow * HoursPerDay
             start   == dueDate - window
             end     == dueDate + window
             last    == task.LastCompletedAt[1]
         IN  IF last < start \/ last > end
             THEN FALSE
             ELSE IF TimeMonth(last) # TimeMonth(t) \/ TimeYear(last) # TimeYear(t)
                  THEN FALSE
                  ELSE TRUE

----------------------------------------------------------------------------
(* The bot's constants.                                                    *)

stageNone == 0
stageTitle == 1
stageDescription == 2
stageCategory == 3
stageDeadline == 4
stageRecurring == 5
stageRecurringDay == 6
stageRecurringWindow == 7

actionComplete == 0
actionDelete == 1

cbCompletePrefix == <<"c", "o", "m", "p", "l", "e", "t", "e", ":">>
cbDeletePrefix == <<"d", "e", "l", "e", "t", "e", ":">>
cbConfirmPrefix == <<"c", "o", "n", "f", "i", "r", "m", ":">>
cbCancelPrefix == <<"c", "a", "n", "c", "e", "l", ":">>

btnSkip == <<"#skip", " ", "~P", "~r", "~o", "~p", "~u", "~s", "~t", "~i", "~t", "~'">>
btnConfirm == <<"#check", " ", "~P", "~o", "~d", "~t", "~v", "~e", "~r", "~d", "~i", "~t", "~'">>
btnCancel == <<"#back", " ", "~O", "~t", "~m", "~e", "~n", "~a">>
btnCancelDialog == <<"#rewind", " ", "~O", "~t", "~m", "~e", "~n", "~i", "~t", "~'", " ", "~v", "~v", "~o", "~d">>
menuLabelNewTask == <<"#plus", " ", "~N", "~o", "~v", "~a", "~ya", " ", "~z", "~a", "~d", "~a", "~ch", "~a">>
menuLabelTasks == <<"#clipboard", " ", "~Z", "~a", "~d", "~a", "~ch", "~i">>
menuLabelCategories == <<"#folder", " ", "~K", "~a", "~t", "~e", "~g", "~o", "~r", "~i", "~i">>
menuLabelHelp == <<"#info", " ", "~P", "~o", "~m", "~o", "~shch", "~'">>

wordSkipRu == <<"~p", "~r", "~o", "~p", "~u", "~s", "~t", "~i", "~t", "~'">>     \* "пропустить"
wordConfirmRu == <<"~p", "~o", "~d", "~t", "~v", "~e", "~r", "~d", "~i", "~t", "~'">> \* "подтвердить"
wordCancelRu == <<"~o", "~t", "~m", "~e", "~n", "~a">>                          \* "отмена"
wordCancelDialogRu == <<"~o", "~t", "~m", "~e", "~n", "~i", "~t", "~'", " ", "~v", "~v", "~o", "~d">> \* "отменить ввод"
wordDa == <<"~d", "~a">>                                                        \* "да"
wordNet == <<"~n", "~e", "~t">>                                                 \* "нет"

\* strings.ToLower of the button and menu labels
lowerBtnSkip == ToLower(btnSkip)
lowerBtnConfirm == ToLower(btnConfirm)
lowerBtnCancel == ToLower(btnCancel)
lowerBtnCancelDialog == ToLower(btnCancelDialog)
lowerMenuLabelNewTask == ToLower(menuLabelNewTask)
lowerMenuLabelTasks == ToLower(menuLabelTasks)
lowerMenuLabelCategories == ToLower(menuLabelCategories)
lowerMenuLabelHelp == ToLower(menuLabelHelp)

\* isSkipInput that knows the dash only
isSkipInputDashOnly(text) ==
    TrimSpace(ToLower(text)) = <<"-">>

isSkipInput(text) ==
    LET value == TrimSpace(ToLower(text))
    IN  \/ value = <<"-">>
        \/ value = lowerBtnSkip
        \/ value = wordSkipRu
        \/ value = <<"s", "k", "i", "p">>

isConfirmInput(text) ==
    LET value == TrimSpace(ToLower(text))
    IN  \/ value = lowerBtnConfirm
        \/ value = wordConfirmRu
        \/ value = wordDa

\* isCancelInput comparing the lower-cased text with the button label as it
\* is written
isCancelInputLabelAsWritten(text) ==
    LET value == TrimSpace(ToLower(text))
    IN  value = btnCancel \/ value = wordCancelRu

isCancelInput(text) ==
    LET value == TrimSpace(ToLower(text))
    IN  value = lowerBtnCancel \/ value = wordCancelRu

isCancelDialogInput(text) ==
    LET value == TrimSpace(ToLower(text))
    IN  \/ value = lowerBtnCancelDialog
        \/ value = wordCancelDialogRu
        \/ value = wordCancelRu

\* the yes and no vocabularies of the recurrence question (stageRecurring)
isYesWord(lower) ==
    lower = wordDa \/ lower = <<"y", "e", "s">> \/ lower = <<"y">>

isNoWord(lower) ==
    \/ lower = wordNet
    \/ lower = <<"n", "o">>
    \/ lower = <<"n">>
    \/ lower = <<"-">>

----------------------------------------------------------------------------
(* The store (repositories) and the task lifecycle service.                *)
(*                                                                         *)
(* A handler run takes an input f: the store call that fails in this run   *)
(* with a database error, "none" when none does:                           *)
(*   "user"      UserRepository.UpsertFromTelegram (ensureUser)            *)
(*   "get"       TaskRepository.FindByID, an error other than not-found    *)
(*   "category"  CategoryRepository.GetOrCreate                            *)
(*   "write"     TaskRepository.Create / Save / Delete                     *)

Failures == {"none", "user", "get", "category", "write"}

\* service.TaskInput, zero value
EmptyInput ==
    [Title |-> <<>>, Description |-> <<>>, Category |-> <<>>,
     Deadline |-> <<>>, IsRecurring |-> FALSE, RecurDay |-> 0,
     RecurWindow |-> 0]

\* the WHERE clause without its brackets: AND binds before OR
activeOrRecurringUnbracketed(userID) ==
    {t \in tasks : (t.UserID = userID /\ ~t.IsCompleted) \/ t.IsRecurring}

\* TaskRepository.ListActiveOrRecurring: the rows its WHERE clause keeps
activeOrRecurring(userID) ==
    {t \in tasks : t.UserID = userID /\ (~t.IsCompleted \/ t.IsRecurring)}

\* its ORDER BY "deadline NULLS LAST, created_at DESC": a comes before b
orderedBefore(a, b) ==
    \/ a.Deadline # <<>> /\ b.Deadline = <<>>
    \/ a.Deadline # <<>> /\ b.Deadline # <<>> /\ a.Deadline[1] < b.Deadline[1]
    \/ /\ a.Deadline = b.Deadline
       /\ a.CreatedAt > b.CreatedAt

\* every order of the rows the ORDER BY allows: rows with equal keys come
\* in any order
ListActiveOrRecurring(userID) ==
    LET rows == activeOrRecurring(userID)
        n    == Cardinality(rows)
    IN  {s \in [1..n -> rows] :
            /\ \A i, j \in 1..n : i # j => s[i] # s[j]
            /\ \A i, j \in 1..n : i < j => ~orderedBefore(s[j], s[i])}

\* FindByID that looks the row up by id alone
FindByIDAnyOwner(userID, taskID) ==
    {t \in tasks : t.ID = taskID}

\* TaskRepository.FindByID: the rows with this owner and id (none or one)
FindByID(userID, taskID) ==
    {t \in tasks : t.UserID = userID /\ t.ID = taskID}

\* MarkCompleted that keeps the completion time a row already has
MarkCompletedKeepsTime(task, completedAt) ==
    [task EXCEPT !.IsCompleted = TRUE,
                 !.LastCompletedAt = IF @ = <<>> THEN <<completedAt>> ELSE @]

\* TaskRepository.MarkCompleted
MarkCompleted(task, completedAt) ==
    [task EXCEPT !.IsCompleted = TRUE, !.LastCompletedAt = <<completedAt>>]

\* MarkRecurringDone that saves the row without the completion time
MarkRecurringDoneUnstamped(task, completedAt) == task

\* TaskRepository.MarkRecurringDone
MarkRecurringDone(task, completedAt) ==
    [task EXCEPT !.LastCompletedAt = <<completedAt>>]

\* TaskRepository.Delete: the table without the owner's row of this id
DeleteRows(userID, taskID) ==
    {t \in tasks : ~(t.UserID = userID /\ t.ID = taskID)}

\* CompleteTask without the branch for recurring tasks
CompleteTaskClosesRecurring(userID, taskID, completedAt, f) ==
    LET found == FindByID(userID, taskID)
    IN  IF f = "get" THEN [err |-> "store", tasks |-> tasks]
        ELSE IF found = {} THEN [err |-> "notFound", tasks |-> tasks]
        ELSE IF f = "write" THEN [err |-> "store", tasks |-> tasks]
        ELSE LET task == CHOOSE t \in found : TRUE
             IN  [err |-> "none",
                  tasks |-> (tasks \ {task})
                               \cup {MarkCompleted(task, completedAt)}]

\* TaskService.CompleteTask: [err, tasks, task]
CompleteTask(userID, taskID, completedAt, f) ==
    LET found == FindByID(userID, taskID)
    IN  IF f = "get" THEN [err |-> "store", tasks |-> tasks]
        ELSE IF found = {} THEN [err |-> "notFound", tasks |-> tasks]
        ELSE IF f = "write" THEN [err |-> "store", tasks |-> tasks]
        ELSE LET task == CHOOSE t \in found : TRUE
                 done == IF task.IsRecurring
                         THEN MarkRecurringDone(task, completedAt)
                         ELSE MarkCompleted(task, completedAt)
             IN  [err |-> "none", tasks |-> (tasks \ {task}) \cup {done}]

\* TaskService.DeleteTask: [err, tasks]
DeleteTask(userID, taskID, f) ==
    IF f = "write" THEN [err |-> "store", tasks |-> tasks]
    ELSE [err |-> "none", tasks |-> DeleteRows(userID, taskID)]

\* CategoryRepository.GetOrCreate over the categories table, whose unique
\* index idx_user_category_name covers the Name column:
\* [err, id (optional), categories, nextCategoryID]
GetOrCreate(userID, name, f) ==
    LET own == {c \in categories : c.UserID = userID /\ c.Name = name}
    IN  IF name = <<>>
        THEN [err |-> "none", id |-> <<>>, categories |-> categories,
              nextCategoryID |-> nextCategoryID]
        ELSE IF f = "category"
        THEN [err |-> "store", id |-> <<>>, categories |-> categories,
              nextCategoryID |-> nextCategoryID]
        ELSE IF own # {}
        THEN [err |-> "none", id |-> <<(CHOOSE c \in own : TRUE).ID>>,
              categories |-> categories, nextCategoryID |-> nextCategoryID]
        ELSE IF \E c \in categories : c.Name = name
        THEN [err |-> "store", id |-> <<>>, categories |-> categories,
              nextCategoryID |-> nextCategoryID]
        ELSE [err |-> "none", id |-> <<nextCategoryID>>,
              categories |-> categories \cup
                  {[ID |-> nextCategoryID, UserID |-> userID, Name |-> name]},
              nextCategoryID |-> nextCategoryID + 1]

\* TaskService.CreateTask past the title check: the category, then the row
createTitled(userID, input, f) ==
    LET cat == GetOrCreate(userID, input.Category, f)
        task == [ID |-> nextTaskID, UserID |-> userID,
                 CategoryID |-> cat.id, Title |-> input.Title,
                 Description |-> input.Description,
                 Deadline |-> input.Deadline, IsCompleted |-> FALSE,
                 IsRecurring |-> input.IsRecurring,
                 RecurType |-> IF input.IsRecurring THEN Monthly ELSE <<>>,
                 RecurDay |-> IF input.IsRecurring THEN input.RecurDay ELSE 0,
                 RecurWindow |-> IF input.IsRecurring THEN input.RecurWindow ELSE 0,
                 LastCompletedAt |-> <<>>, CreatedAt |-> now]
    IN  IF cat.err # "none"
        THEN [err |-> "store", tasks |-> tasks, categories |-> categories,
              nextTaskID |-> nextTaskID, nextCategoryID |-> nextCategoryID]
        ELSE IF f = "write"
        THEN [err |-> "store", tasks |-> tasks,
              categories |-> cat.categories, nextTaskID |-> nextTaskID,
              nextCategoryID |-> cat.nextCategoryID]
        ELSE [err |-> "none", tasks |-> tasks \cup {task},
              categories |-> cat.categories,
              nextTaskID |-> nextTaskID + 1,
              nextCategoryID |-> cat.nextCategoryID]

\* CreateTask that resolves the category before it looks at the title
CreateTaskCategoryFirst(userID, input, f) ==
    IF input.Title = <<>>
    THEN [err |-> "validation", tasks |-> tasks,
          categories |-> GetOrCreate(userID, input.Category, f).categories,
          nextTaskID |-> nextTaskID,
          nextCategoryID |->
              GetOrCreate(userID, input.Category, f).nextCategoryID]
    ELSE createTitled(userID, input, f)

\* TaskService.CreateTask: [err, tasks, categories, nextTaskID, nextCategoryID]
CreateTask(userID, input, f) ==
    IF input.Title = <<>>
    THEN [err |-> "validation", tasks |-> tasks, categories |-> categories,
          nextTaskID |-> nextTaskID, nextCategoryID |-> nextCategoryID]
    ELSE createTitled(userID, input, f)

\* TaskService.ListActive(user): every answer it can give
ListActive(userID, f) ==
    IF f = "list" THEN {[err |-> "store", rows |-> <<>>]}
    ELSE {[err |-> "none", rows |-> rows] :
             rows \in ListActiveOrRecurring(userID)}

\* one call of the lifecycle service, as the history records it
Call(op, userID, taskID, input, err) ==
    [op |-> op, user |-> userID, task |-> taskID, input |-> input,
     at |-> now, err |-> err]

----------------------------------------------------------------------------
(* The bot's handlers.  Each is a function of the current state to the     *)
(* state it leaves: a record of the new tables and maps, the lifecycle     *)
(* calls it made, the function that did the work and how it returned.      *)

Keep ==
    [conversations |-> conversations, confirmations |-> confirmations,
     tasks |-> tasks, categories |-> categories, users |-> users,
     nextTaskID |-> nextTaskID, nextCategoryID |-> nextCategoryID,
     calls |-> <<>>, route |-> "", outcome |-> ""]

Returns(route, outcome) == [Keep EXCEPT !.route = route, !.outcome = outcome]

\* ensureUser, when the upsert succeeds
WithUser(r, u) == [r EXCEPT !.users = @ \cup {u}]

\* setConversation / clearConversation / setConfirmation / clearConfirmation
setConversation(r, u, state) ==
    [r EXCEPT !.conversations[u] = <<state>>]
clearConversation(r, u) ==
    [r EXCEPT !.conversations[u] = <<>>]
\* setConfirmation that keeps the request it finds pending
setConfirmationKeepsFirst(r, u, req) ==
    IF confirmations[u] # <<>> THEN r ELSE [r EXCEPT !.confirmations[u] = <<req>>]

setConfirmation(r, u, req) ==
    [r EXCEPT !.confirmations[u] = <<req>>]
clearConfirmation(r, u) ==
    [r EXCEPT !.confirmations[u] = <<>>]

\* startNewTaskConversation that resets the stage of a dialog it finds open
\* and keeps its draft
startNewTaskConversationKeepsDraft(u, f) ==
    IF f = "user" THEN Returns("startNewTaskConversation", "userError")
    ELSE setConversation(
             WithUser(Returns("startNewTaskConversation", "started"), u),
             u, [stage |-> stageTitle,
                 input |-> IF conversations[u] = <<>> THEN EmptyInput
                           ELSE conversations[u][1].input])

\* startNewTaskConversation that drops the request it finds pending
startNewTaskConversationClearsSlot(u, f) ==
    IF f = "user" THEN Returns("startNewTaskConversation", "userError")
    ELSE clearConfirmation(
             setConversation(
                 WithUser(Returns("startNewTaskConversation", "started"), u),
                 u, [stage |-> stageTitle, input |-> EmptyInput]), u)

startNewTaskConversation(u, f) ==
    IF f = "user" THEN Returns("startNewTaskConversation", "userError")
    ELSE setConversation(
             WithUser(Returns("startNewTaskConversation", "started"), u),
             u, [stage |-> stageTitle, input |-> EmptyInput])

\* finishTaskCreation that asks CreateTask again when it failed
finishTaskCreationRetries(u, input, f) ==
    IF f = "user" THEN Returns("finishTaskCreation", "userError")
    ELSE LET c == CreateTask(u, input, f)
             r == WithUser(Returns("finishTaskCreation",
                                   IF c.err = "none" THEN "created"
                                   ELSE "createFailed"), u)
             call == Call("CreateTask", u, 0, input, c.err)
         IN  [r EXCEPT !.tasks = c.tasks, !.categories = c.categories,
                       !.nextTaskID = c.nextTaskID,
                       !.nextCategoryID = c.nextCategoryID,
                       !.calls = IF c.err = "none" THEN <<call>>
                                 ELSE <<call, call>>]

\* finishTaskCreation: ensureUser, CreateTask, the summary and the task list
finishTaskCreation(u, input, f) ==
    IF f = "user" THEN Returns("finishTaskCreation", "userError")
    ELSE LET c == CreateTask(u, input, f)
             r == WithUser(Returns("finishTaskCreation",
                                   IF c.err = "none" THEN "created"
                                   ELSE "createFailed"), u)
         IN  [r EXCEPT !.tasks = c.tasks, !.categories = c.categories,
                       !.nextTaskID = c.nextTaskID,
                       !.nextCategoryID = c.nextCategoryID,
                       !.calls = <<Call("CreateTask", u, 0, input, c.err)>>]

\* the final branches of handleConversation, keeping the dialog when the
\* task was not stored
finishAndKeepOnFailure(u, input, f) ==
    IF finishTaskCreation(u, input, f).outcome = "created"
    THEN clearConversation(finishTaskCreation(u, input, f), u)
    ELSE finishTaskCreation(u, input, f)

\* the final branches of handleConversation: finishTaskCreation, then
\* clearConversation, whatever finishTaskCreation returned
finishAndClear(u, input, f) ==
    clearConversation(finishTaskCreation(u, input, f), u)

\* the day check of stageRecurringDay, letting day 0 through
recurDayOkFromZero(text) ==
    AtoiOk(text) /\ ~(AtoiVal(text) < 0 \/ AtoiVal(text) > MaxRecurDay)

\* the checks of stageRecurringDay and stageRecurringWindow
recurDayOk(text) ==
    AtoiOk(text) /\ ~(AtoiVal(text) < MinRecurDay \/ AtoiVal(text) > MaxRecurDay)

\* the window check of stageRecurringWindow without its upper limit
recurWindowOkNoCeiling(text) ==
    AtoiOk(text) /\ ~(AtoiVal(text) < MinRecurWindow)

recurWindowOk(text) ==
    /\ AtoiOk(text)
    /\ ~(AtoiVal(text) < MinRecurWindow \/ AtoiVal(text) > MaxRecurWindow)

\* handleConversation whose deadline stage goes on to the day of the month,
\* past the recurrence question
handleConversationPastFlag(u, raw, f) ==
    LET state == conversations[u][1]
        text  == TrimSpace(raw)
        lower == ToLower(text)
        goto(st, in, outcome) ==
            setConversation(Returns("handleConversation", outcome), u,
                            [stage |-> st, input |-> in])
        prompt == Returns("handleConversation", "reprompt")
    IN  IF conversations[u] = <<>> THEN Returns("handleConversation", "none")
        ELSE CASE state.stage = stageTitle ->
                    goto(stageDescription,
                         [state.input EXCEPT !.Title = text], "advanced")
               [] state.stage = stageDescription ->
                    goto(stageCategory,
                         IF isSkipInput(text) THEN state.input
                         ELSE [state.input EXCEPT !.Description = text],
                         "advanced")
               [] state.stage = stageCategory ->
                    goto(stageDeadline,
                         IF isSkipInput(text) THEN state.input
                         ELSE [state.input EXCEPT !.Category = text],
                         "advanced")
               [] state.stage = stageDeadline ->
                    IF isSkipInput(text)
                    THEN goto(stageRecurringDay, state.input, "advanced")
                    ELSE IF ~ParseDateOk(text) THEN prompt
                    ELSE goto(stageRecurringDay,
                              [state.input EXCEPT
                                  !.Deadline = <<ParseDateVal(text)>>],
                              "advanced")
               [] state.stage = stageRecurring ->
                    IF isYesWord(lower)
                    THEN goto(stageRecurringDay,
                              [state.input EXCEPT !.IsRecurring = TRUE],
                              "advanced")
                    ELSE IF isNoWord(lower)
                    THEN finishAndClear(
                             u, [state.input EXCEPT !.IsRecurring = FALSE], f)
                    ELSE prompt
               [] state.stage = stageRecurringDay ->
                    IF ~recurDayOk(text)
                    THEN prompt
                    ELSE goto(stageRecurringWindow,
                              [state.input EXCEPT !.RecurDay = AtoiVal(text)],
                              "advanced")
               [] state.stage = stageRecurringWindow ->
                    IF ~recurWindowOk(text)
                    THEN prompt
                    ELSE finishAndClear(
                             u, [state.input EXCEPT
                                    !.RecurWindow = AtoiVal(text)], f)
               [] OTHER ->
                    clearConversation(Returns("handleConversation", "reset"), u)

\* handleConversation: one step of the dialog of user u on message text raw
handleConversation(u, raw, f) ==
    LET state == conversations[u][1]
        text  == TrimSpace(raw)
        lower == ToLower(text)
        goto(st, in, outcome) ==
            setConversation(Returns("handleConversation", outcome), u,
                            [stage |-> st, input |-> in])
        prompt == Returns("handleConversation", "reprompt")
    IN  IF conversations[u] = <<>> THEN Returns("handleConversation", "none")
        ELSE CASE state.stage = stageTitle ->
                    goto(stageDescription,
                         [state.input EXCEPT !.Title = text], "advanced")
               [] state.stage = stageDescription ->
                    goto(stageCategory,
                         IF isSkipInput(text) THEN state.input
                         ELSE [state.input EXCEPT !.Description = text],
                         "advanced")
               [] state.stage = stageCategory ->
                    goto(stageDeadline,
                         IF isSkipInput(text) THEN state.input
                         ELSE [state.input EXCEPT !.Category = text],
                         "advanced")
               [] state.stage = stageDeadline ->
                    IF isSkipInput(text)
                    THEN goto(stageRecurring, state.input, "advanced")
                    ELSE IF ~ParseDateOk(text) THEN prompt
                    ELSE goto(stageRecurring,
                              [state.input EXCEPT
                                  !.Deadline = <<ParseDateVal(text)>>],
                              "advanced")
               [] state.stage = stageRecurring ->
                    IF isYesWord(lower)
                    THEN goto(stageRecurringDay,
                              [state.input EXCEPT !.IsRecurring = TRUE],
                              "advanced")
                    ELSE IF isNoWord(lower)
                    THEN finishAndClear(
                             u, [state.input EXCEPT !.IsRecurring = FALSE], f)
                    ELSE prompt
               [] state.stage = stageRecurringDay ->
                    IF ~recurDayOk(text)
                    THEN prompt
                    ELSE goto(stageRecurringWindow,
                              [state.input EXCEPT !.RecurDay = AtoiVal(text)],
                              "advanced")
               [] state.stage = stageRecurringWindow ->
                    IF ~recurWindowOk(text)
                    THEN prompt
                    ELSE finishAndClear(
                             u, [state.input EXCEPT
                                    !.RecurWindow = AtoiVal(text)], f)
               [] OTHER ->
                    clearConversation(Returns("handleConversation", "reset"), u)

\* handleListTasks, handleCategories, handleStartV2, handleReport: ensureUser
\* and a read of the store
readOnly(route, u, f) ==
    IF f = "user" THEN Returns(route, "userError")
    ELSE WithUser(Returns(route, "shown"), u)

\* handleComplete: /complete <id>
handleComplete(u, arguments, f) ==
    LET args == TrimSpace(arguments)
    IN  IF args = <<>> THEN Returns("handleComplete", "usage")
        ELSE IF ~ParseUintOk(args) THEN Returns("handleComplete", "badID")
        ELSE IF f = "user" THEN Returns("handleComplete", "userError")
        ELSE LET c == CompleteTask(u, ParseUintVal(args), now, f)
                 r == WithUser(Returns("handleComplete",
                                       IF c.err = "none" THEN "completed"
                                       ELSE c.err), u)
             IN  [r EXCEPT !.tasks = c.tasks,
                           !.calls = <<Call("CompleteTask", u,
                                            ParseUintVal(args), EmptyInput,
                                            c.err)>>]

\* handleDelete: /delete <id>
handleDelete(u, arguments, f) ==
    LET args == TrimSpace(arguments)
        id   == ParseUintVal(args)
    IN  IF args = <<>> THEN Returns("handleDelete", "usage")
        ELSE IF ~ParseUintOk(args) THEN Returns("handleDelete", "badID")
        ELSE IF f = "user" THEN Returns("handleDelete", "userError")
        ELSE IF f = "get"
        THEN WithUser(Returns("handleDelete", "store"), u)
        ELSE IF FindByID(u, id) = {}
        THEN WithUser(Returns("handleDelete", "notFound"), u)
        ELSE LET d == DeleteTask(u, id, f)
                 r == WithUser(Returns("handleDelete",
                                       IF d.err = "none" THEN "deleted"
                                       ELSE d.err), u)
             IN  [r EXCEPT !.tasks = d.tasks,
                           !.calls = <<Call("DeleteTask", u, id, EmptyInput,
                                            d.err)>>]

\* askCompleteConfirmation
askCompleteConfirmation(u, taskID, f) ==
    LET found == FindByID(u, taskID)
        task  == CHOOSE t \in found : TRUE
    IN  IF f = "user" THEN Returns("askCompleteConfirmation", "userError")
        ELSE IF f = "get"
        THEN WithUser(Returns("askCompleteConfirmation", "store"), u)
        ELSE IF found = {}
        THEN WithUser(Returns("askCompleteConfirmation", "notFound"), u)
        ELSE IF task.IsRecurring /\ isRecurringDoneInWindow(task, now)
        THEN WithUser(Returns("askCompleteConfirmation", "alreadyDone"), u)
        ELSE IF ~task.IsRecurring /\ task.IsCompleted
        THEN WithUser(Returns("askCompleteConfirmation", "alreadyDone"), u)
        ELSE setConfirmation(
                 WithUser(Returns("askCompleteConfirmation", "asked"), u),
                 u, [taskID |-> task.ID, action |-> actionComplete])

\* askDeleteConfirmation
askDeleteConfirmation(u, taskID, f) ==
    LET found == FindByID(u, taskID)
        task  == CHOOSE t \in found : TRUE
    IN  IF f = "user" THEN Returns("askDeleteConfirmation", "userError")
        ELSE IF f = "get"
        THEN WithUser(Returns("askDeleteConfirmation", "store"), u)
        ELSE IF found = {}
        THEN WithUser(Returns("askDeleteConfirmation", "notFound"), u)
        ELSE setConfirmation(
                 WithUser(Returns("askDeleteConfirmation", "asked"), u),
                 u, [taskID |-> task.ID, action |-> actionDelete])

\* completeTaskAndRefresh without its look at whether the task is done
completeTaskAndRefreshUnchecked(u, taskID, f) ==
    IF f = "user" THEN Returns("completeTaskAndRefresh", "userError")
    ELSE IF f = "get"
    THEN WithUser(Returns("completeTaskAndRefresh", "store"), u)
    ELSE IF FindByID(u, taskID) = {}
    THEN WithUser(Returns("completeTaskAndRefresh", "notFound"), u)
    ELSE LET c == CompleteTask(u, taskID, now, f)
             r == WithUser(Returns("completeTaskAndRefresh",
                                   IF c.err = "none" THEN "completed"
                                   ELSE c.err), u)
         IN  [r EXCEPT !.tasks = c.tasks,
                       !.calls = <<Call("CompleteTask", u, taskID,
                                        EmptyInput, c.err)>>]

\* completeTaskAndRefresh
completeTaskAndRefresh(u, taskID, f) ==
    LET found == FindByID(u, taskID)
        task  == CHOOSE t \in found : TRUE
    IN  IF f = "user" THEN Returns("completeTaskAndRefresh", "userError")
        ELSE IF f = "get"
        THEN WithUser(Returns("completeTaskAndRefresh", "store"), u)
        ELSE IF found = {}
        THEN WithUser(Returns("completeTaskAndRefresh", "notFound"), u)
        ELSE IF task.IsRecurring /\ isRecurringDoneInWindow(task, now)
        THEN WithUser(Returns("completeTaskAndRefresh", "alreadyDone"), u)
        ELSE IF ~task.IsRecurring /\ task.IsCompleted
        THEN WithUser(Returns("completeTaskAndRefresh", "alreadyDone"), u)
        ELSE LET c == CompleteTask(u, taskID, now, f)
                 r == WithUser(Returns("completeTaskAndRefresh",
                                       IF c.err = "none" THEN "completed"
                                       ELSE c.err), u)
             IN  [r EXCEPT !.tasks = c.tasks,
                           !.calls = <<Call("CompleteTask", u, taskID,
                                            EmptyInput, c.err)>>]

\* deleteTaskAndRefresh
deleteTaskAndRefresh(u, taskID, f) ==
    IF f = "user" THEN Returns("deleteTaskAndRefresh", "userError")
    ELSE IF f = "get"
    THEN WithUser(Returns("deleteTaskAndRefresh", "store"), u)
    ELSE IF FindByID(u, taskID) = {}
    THEN WithUser(Returns("deleteTaskAndRefresh", "notFound"), u)
    ELSE LET d == DeleteTask(u, taskID, f)
             r == WithUser(Returns("deleteTaskAndRefresh",
                                   IF d.err = "none" THEN "deleted"
                                   ELSE d.err), u)
         IN  [r EXCEPT !.tasks = d.tasks,
                       !.calls = <<Call("DeleteTask", u, taskID, EmptyInput,
                                        d.err)>>]

\* handleConfirmationResponse with a confirm arm that leaves the slot set
handleConfirmationResponseKeepsSlot(u, raw, req, f) ==
    LET text == TrimSpace(raw)
    IN  IF isConfirmInput(text)
        THEN IF req.action = actionDelete
             THEN deleteTaskAndRefresh(u, req.taskID, f)
             ELSE completeTaskAndRefresh(u, req.taskID, f)
        ELSE IF isCancelInput(text)
        THEN clearConfirmation(
                 Returns("handleConfirmationResponse", "declined"), u)
        ELSE Returns("handleConfirmationResponse", "reprompt")

\* handleConfirmationResponse with a confirm arm that completes the task
\* whatever the stored action is
handleConfirmationResponseAlwaysCompletes(u, raw, req, f) ==
    LET text == TrimSpace(raw)
    IN  IF isConfirmInput(text)
        THEN clearConfirmation(completeTaskAndRefresh(u, req.taskID, f), u)
        ELSE IF isCancelInput(text)
        THEN clearConfirmation(
                 Returns("handleConfirmationResponse", "declined"), u)
        ELSE Returns("handleConfirmationResponse", "reprompt")

\* handleConfirmationResponse with a default arm that drops the request
handleConfirmationResponseDropsOnOther(u, raw, req, f) ==
    LET text == TrimSpace(raw)
    IN  IF isConfirmInput(text)
        THEN clearConfirmation(
                 IF req.action = actionDelete
                 THEN deleteTaskAndRefresh(u, req.taskID, f)
                 ELSE completeTaskAndRefresh(u, req.taskID, f), u)
        ELSE clearConfirmation(
                 Returns("handleConfirmationResponse",
                         IF isCancelInput(text) THEN "declined" ELSE "reprompt"),
                 u)

\* handleConfirmationResponse: the reply of user u to the pending request req
handleConfirmationResponse(u, raw, req, f) ==
    LET text == TrimSpace(raw)
    IN  IF isConfirmInput(text)
        THEN clearConfirmation(
                 IF req.action = actionDelete
                 THEN deleteTaskAndRefresh(u, req.taskID, f)
                 ELSE completeTaskAndRefresh(u, req.taskID, f), u)
        ELSE IF isCancelInput(text)
        THEN clearConfirmation(
                 Returns("handleConfirmationResponse", "declined"), u)
        ELSE Returns("handleConfirmationResponse", "reprompt")

\* handleMenuAlias: the menu label a text is, "" when it is none
menuAlias(raw) ==
    LET text == TrimSpace(ToLower(raw))
    IN  CASE text = lowerMenuLabelNewTask -> "newtask"
          [] text = lowerMenuLabelTasks -> "tasks"
          [] text = lowerMenuLabelCategories -> "categories"
          [] text = lowerMenuLabelHelp -> "help"
          [] OTHER -> ""

handleMenuAlias(u, raw, f) ==
    CASE menuAlias(raw) = "newtask" -> startNewTaskConversation(u, f)
      [] menuAlias(raw) = "tasks" -> readOnly("handleListTasks", u, f)
      [] menuAlias(raw) = "categories" -> readOnly("handleCategories", u, f)
      [] OTHER -> Returns("handleHelpV3", "shown")

\* handleCommand whose /cancel empties both slots, as the cancel token does
handleCommandCancelClearsBoth(u, command, arguments, f) ==
    CASE command = "start" -> readOnly("handleStartV2", u, f)
      [] command = "help" -> Returns("handleHelpV3", "shown")
      [] command = "report" -> readOnly("handleReport", u, f)
      [] command = "delete" -> handleDelete(u, arguments, f)
      [] command = "newtask" -> startNewTaskConversation(u, f)
      [] command = "tasks" -> readOnly("handleListTasks", u, f)
      [] command = "complete" -> handleComplete(u, arguments, f)
      [] command = "categories" -> readOnly("handleCategories", u, f)
      [] command = "interval" -> Returns("handleInterval", "shown")
      [] command = "cancel" ->
            clearConfirmation(
                clearConversation(Returns("handleCommand", "cancelled"), u),
                u)
      [] OTHER -> Returns("handleCommand", "unsupported")

\* handleCommand
handleCommand(u, command, arguments, f) ==
    CASE command = "start" -> readOnly("handleStartV2", u, f)
      [] command = "help" -> Returns("handleHelpV3", "shown")
      [] command = "report" -> readOnly("handleReport", u, f)
      [] command = "delete" -> handleDelete(u, arguments, f)
      [] command = "newtask" -> startNewTaskConversation(u, f)
      [] command = "tasks" -> readOnly("handleListTasks", u, f)
      [] command = "complete" -> handleComplete(u, arguments, f)
      [] command = "categories" -> readOnly("handleCategories", u, f)
      [] command = "interval" -> Returns("handleInterval", "shown")
      [] command = "cancel" ->
            clearConversation(Returns("handleCommand", "cancelled"), u)
      [] OTHER -> Returns("handleCommand", "unsupported")

\* the dispatch with the open dialog asked in front of the pending request
messageBranchDialogFirst(u, msg) ==
    IF ~msg.IsCommand /\ isCancelDialogInput(msg.Text) THEN "cancelDialog"
    ELSE IF ~msg.IsCommand /\ menuAlias(msg.Text) # "" THEN "menuAlias"
    ELSE IF msg.IsCommand THEN "command"
    ELSE IF conversations[u] # <<>> THEN "conversation"
    ELSE IF confirmations[u] # <<>> THEN "confirmation"
    ELSE "unknown"

\* handleMessage: the dispatch of one private message of user u.
\* branch names the arm of the dispatch that took the message.
messageBranch(u, msg) ==
    IF ~msg.IsCommand /\ isCancelDialogInput(msg.Text) THEN "cancelDialog"
    ELSE IF ~msg.IsCommand /\ menuAlias(msg.Text) # "" THEN "menuAlias"
    ELSE IF msg.IsCommand THEN "command"
    ELSE IF confirmations[u] # <<>> THEN "confirmation"
    ELSE IF conversations[u] # <<>> THEN "conversation"
    ELSE "unknown"

\* handleMessage whose cancel token empties the dialog only, as /cancel does
handleMessageCancelKeepsRequest(u, msg, f) ==
    LET branch == messageBranch(u, msg)
    IN  CASE branch = "cancelDialog" ->
               clearConversation(Returns("handleMessage", "cancelled"), u)
          [] branch = "menuAlias" -> handleMenuAlias(u, msg.Text, f)
          [] branch = "command" -> handleCommand(u, msg.Command, msg.Text, f)
          [] branch = "confirmation" ->
               handleConfirmationResponse(u, msg.Text, confirmations[u][1], f)
          [] branch = "conversation" -> handleConversation(u, msg.Text, f)
          [] OTHER -> Returns("handleMessage", "notUnderstood")

handleMessage(u, msg, f) ==
    LET branch == messageBranch(u, msg)
    IN  CASE branch = "cancelDialog" ->
               clearConfirmation(
                   clearConversation(Returns("handleMessage", "cancelled"), u),
                   u)
          [] branch = "menuAlias" -> handleMenuAlias(u, msg.Text, f)
          [] branch = "command" -> handleCommand(u, msg.Command, msg.Text, f)
          [] branch = "confirmation" ->
               handleConfirmationResponse(u, msg.Text, confirmations[u][1], f)
          [] branch = "conversation" -> handleConversation(u, msg.Text, f)
          [] OTHER -> Returns("handleMessage", "notUnderstood")

\* parseTaskID
parseTaskIDOk(data, prefix) == ParseUintOk(TrimPrefix(data, prefix))
parseTaskID(data, prefix) == ParseUintVal(TrimPrefix(data, prefix))

\* handleCallback: one inline-button callback of user u carrying data
handleCallback(u, data, f) ==
    CASE HasPrefix(data, cbCompletePrefix) ->
            IF ~parseTaskIDOk(data, cbCompletePrefix)
            THEN Returns("handleCallback", "badID")
            ELSE askCompleteConfirmation(
                     u, parseTaskID(data, cbCompletePrefix), f)
      [] HasPrefix(data, cbDeletePrefix) ->
            IF ~parseTaskIDOk(data, cbDeletePrefix)
            THEN Returns("handleCallback", "badID")
            ELSE askDeleteConfirmation(u, parseTaskID(data, cbDeletePrefix), f)
      [] HasPrefix(data, cbConfirmPrefix) ->
            IF ~parseTaskIDOk(data, cbConfirmPrefix)
            THEN Returns("handleCallback", "badID")
            ELSE completeTaskAndRefresh(
                     u, parseTaskID(data, cbConfirmPrefix), f)
      [] HasPrefix(data, cbCancelPrefix) -> Returns("handleCallback", "ack")
      [] OTHER -> Returns("handleCallback", "ack")

----------------------------------------------------------------------------
(* The actions: the update loop of Bot.Start takes one update at a time    *)
(* and runs its handler to the end; the clock moves between updates.       *)

\* whether an update is an affirmative input: "typed" for a confirm text,
\* "callback" for a confirm:<id> button, "none" for the rest
Affirmative(op, input) ==
    IF op = "message"
    THEN IF ~input.IsCommand /\ isConfirmInput(TrimSpace(input.Text))
         THEN "typed" ELSE "none"
    ELSE IF HasPrefix(input, cbConfirmPrefix)
            /\ parseTaskIDOk(input, cbConfirmPrefix)
         THEN "callback" ELSE "none"

\* whether an update asks for a new task dialog: /newtask or its menu label
StartsDialog(op, input) ==
    /\ op = "message"
    /\ IF input.IsCommand THEN input.Command = "newtask"
       ELSE menuAlias(input.Text) = "newtask"

\* what the history keeps of the update before this one: kept when both are
\* affirmative inputs of the same user, when this one asks for a new dialog
\* right after the same user cancelled one, or when this one is a typed
\* confirmation right after a request of the same user that found another
\* request pending; empty otherwise
Summary(e, op, u, input) ==
    IF \/ Affirmative(op, input) # "none" /\ e.affirm # "none" /\ e.user = u
       \/ /\ StartsDialog(op, input)
          /\ e.op = "message" /\ e.user = u
          /\ e.branch = "cancelDialog" /\ e.conv # <<>>
       \/ /\ Affirmative(op, input) = "typed"
          /\ e.op = "callback" /\ e.user = u
          /\ e.outcome = "asked" /\ e.pending # <<>>
    THEN <<[op |-> e.op, affirm |-> e.affirm, input |-> e.input,
            branch |-> e.branch,
            pending |-> e.pending, conv |-> e.conv, outcome |-> e.outcome,
            calls |-> e.calls]>>
    ELSE <<>>

\* inputs: a text message, a command with its arguments; the history keeps
\* the data of a callback as a text
Text(text) == [IsCommand |-> FALSE, Command |-> "", Text |-> text]
Command(name, arguments) ==
    [IsCommand |-> TRUE, Command |-> name, Text |-> arguments]

\* the state a handler leaves, and its entry in the history
Apply(r, op, u, input, branch) ==
    /\ conversations' = r.conversations
    /\ confirmations' = r.confirmations
    /\ tasks' = r.tasks
    /\ categories' = r.categories
    /\ users' = r.users
    /\ nextTaskID' = r.nextTaskID
    /\ nextCategoryID' = r.nextCategoryID
    /\ ev' = [op |-> op, user |-> u,
              input |-> IF op = "callback" THEN Text(input) ELSE input,
              branch |-> branch,
              route |-> r.route, outcome |-> r.outcome, calls |-> r.calls,
              affirm |-> Affirmative(op, input),
              pending |-> confirmations[u], conv |-> conversations[u],
              before |-> tasks,
              prev |-> Summary(ev, op, u, input)]
    /\ UNCHANGED now

\* Bot.Start, case update.Message
Message(u, msg, f) ==
    \E r \in {handleMessage(u, msg, f)} :
        Apply(r, "message", u, msg, messageBranch(u, msg))

\* Bot.Start, case update.CallbackQuery
Callback(u, data, f) ==
    \E r \in {handleCallback(u, data, f)} :
        Apply(r, "callback", u, data, "callback")

\* time passes: the next time.Now() reads t
Tick(t) ==
    /\ t > now
    /\ now' = t
    /\ UNCHANGED <<conversations, confirmations, tasks, categories, users,
                   nextTaskID, nextCategoryID, ev>>


----------------------------------------------------------------------------
(* The empty interaction state, shared by every specification.             *)

NoConversations == [u \in Users |-> <<>>]
NoConfirmations == [u \in Users |-> <<>>]

----------------------------------------------------------------------------
(* SpecDue: the recurrence engine as a pure function.  Init draws a        *)
(* recurring task (day, window, never satisfied) and an instant; the one   *)
(* action applies recurringDue to them.                                    *)

DueYears == {1900, 2000, 2023, 2024}   \* century, leap century, plain, leap
DueHours == {0, 1, HoursPerDay - 1}
GridYears == {2024}
GridDays == {1, 15, 29, 30, 31}

\* every day-of-month in every month of DueYears, at two instants a month
DueInitCalendar ==
    /\ \E d \in MinRecurDay..MaxRecurDay :
          tasks = {RecurringTask(1, 1, d, 0, <<>>)}
    /\ \E y \in DueYears, m \in 1..12, dd \in {1, 15} :
          now = GoDate(y, m, dd, 0)

\* every day of GridYears at three hours, against the days of GridDays
DueInitGrid ==
    /\ \E d \in GridDays, w \in MinRecurWindow..MaxWindow :
          tasks = {RecurringTask(1, 1, d, w, <<>>)}
    /\ \E y \in GridYears, m \in 1..12, dd \in 1..31, h \in DueHours :
          /\ dd <= daysInMonth(m, y)
          /\ now = GoDate(y, m, dd, h)

DueInit ==
    /\ conversations = NoConversations
    /\ confirmations = NoConfirmations
    /\ categories = {}
    /\ users = {1}
    /\ nextTaskID = 2
    /\ nextCategoryID = 1
    /\ ev = [op |-> "init"]
    /\ (DueInitCalendar \/ DueInitGrid)

\* the digest's loop body for one recurring task: s.recurringDue(task, now)
DueCheck ==
    /\ ev.op = "init"
    /\ \E task \in tasks :
          ev' = [op |-> "recurringDue", task |-> task.ID,
                 day |-> recurringDueDay(task, now),
                 due |-> recurringDue(task, now)]
    /\ UNCHANGED <<conversations, confirmations, tasks, categories, users,
                   nextTaskID, nextCategoryID, now>>

DueNext == DueCheck

SpecDue == DueInit /\ [][DueNext]_vars

----------------------------------------------------------------------------
(* The calendar as the claims state it: a table of month lengths and the   *)
(* Gregorian leap-year rule.                                               *)

IsLeapYear(y) == (y % 4 = 0) /\ ((y % 100 # 0) \/ (y % 400 = 0))

MonthLength(m, y) ==
    IF m = 2 THEN (IF IsLeapYear(y) THEN 29 ELSE 28)
    ELSE IF m \in {4, 6, 9, 11} THEN 30 ELSE 31

\* the effective due day of day-of-month d in the month of instant t
EffectiveDay(d, t) ==
    LET n == MonthLength(TimeMonth(t), TimeYear(t))
    IN  IF d <= n THEN d ELSE n

\* the start of the effective due day of d in the month of instant t
DueStart(d, t) ==
    (t - TimeHour(t)) + (EffectiveDay(d, t) - TimeDay(t)) * HoursPerDay

\* t lies in the closed window [due - w days, due + w days] of t's month
InDueWindow(d, w, t) ==
    /\ DueStart(d, t) - w * HoursPerDay <= t
    /\ t <= DueStart(d, t) + w * HoursPerDay

\* C4: for every recurrence day d in 1..31 and every month and year, the
\* due day the due-now check (and the bot's already-done check) works with
\* is d when the month has that many days and the month's last day
\* otherwise.
C4_EffectiveDueDay ==
    \A task \in tasks :
        /\ task.RecurDay \in MinRecurDay..MaxRecurDay
        /\ recurringDueDay(task, now) = EffectiveDay(task.RecurDay, now)
        /\ doneInWindowDueDay(task, now) = EffectiveDay(task.RecurDay, now)
        /\ (ev.op = "recurringDue" => ev.day = EffectiveDay(task.RecurDay, now))

\* C4 witness: day 31 evaluated in February of a leap year gives the 29th.
C4_Witness ==
    /\ ev.op = "recurringDue"
    /\ TimeMonth(now) = 2 /\ IsLeapYear(TimeYear(now))
    /\ \E task \in tasks : task.RecurDay = 31 /\ ev.day = 29

\* C5: a recurring monthly task that was never satisfied is due-now at
\* instant now exactly when now lies in [due - w days, due + w days], due
\* being the start of the effective due day of now's month; both endpoints
\* are inside, the instants next to them outside.
C5_DueIffInWindow ==
    \A task \in tasks :
        task.LastCompletedAt = <<>> =>
            /\ recurringDue(task, now)
                  = InDueWindow(task.RecurDay, task.RecurWindow, now)
            /\ (ev.op = "recurringDue" =>
                  ev.due = InDueWindow(task.RecurDay, task.RecurWindow, now))

\* C5 witness: the check has run at the last instant of a window of the
\* largest radius and answered true.
C5_Witness ==
    /\ ev.op = "recurringDue" /\ ev.due
    /\ \E task \in tasks :
          /\ task.RecurWindow = MaxWindow
          /\ now = DueStart(task.RecurDay, now) + MaxWindow * HoursPerDay


\* the recurring tasks of radius 0 that were never satisfied
RadiusZero ==
    {task \in tasks : task.RecurWindow = 0 /\ task.LastCompletedAt = <<>>}

\* C24 as stated: with radius 0 the check answers true at every instant of
\* the effective due day of now's month and false on every other day.
C24_DueAllOfDueDay ==
    \A task \in RadiusZero :
        ev.op = "recurringDue" =>
            ev.due = (TimeDay(now) = EffectiveDay(task.RecurDay, now))

\* C24: with radius 0 the window is the single instant at which the
\* effective due day of now's month starts: the check answers true at that
\* instant and false at every other instant, of that day or of another.
C24_DueAtStartOfDueDay ==
    \A task \in RadiusZero :
        /\ recurringDue(task, now) = (now = DueStart(task.RecurDay, now))
        /\ (ev.op = "recurringDue" =>
              ev.due = (now = DueStart(task.RecurDay, now)))

\* C24 witness: the check has run with radius 0 at the start of the due day
\* and answered true.
C24_Witness ==
    /\ ev.op = "recurringDue" /\ ev.due
    /\ \E task \in RadiusZero : now = DueStart(task.RecurDay, now)

\* the check has run with radius 0 an hour into the due day and answered
\* false
C24_LaterThatDay ==
    /\ ev.op = "recurringDue" /\ ~ev.due
    /\ \E task \in RadiusZero :
          /\ TimeDay(now) = EffectiveDay(task.RecurDay, now)
          /\ TimeHour(now) = 1
----------------------------------------------------------------------------
(* Spec: the confirmation gate.  NumUsers users talk to the bot over a     *)
(* store that already holds a monthly task of user 1 and a one-off task of *)
(* every other user; nobody opens a new-task dialog here.                  *)

\* the clock points: noon of the due day of the monthly task, inside its
\* window, and noons after the window has closed
GateDay == 15
GateWindow == 1
ClockAt(i) == GoDate(2024, 5, GateDay + 2 * i, 12)
GateClock == {ClockAt(i) : i \in 0..MaxClock}

\* a one-off row as TaskService.CreateTask stores it
OneOffTask(id, owner) ==
    [ID |-> id, UserID |-> owner, CategoryID |-> <<>>, Title |-> <<"t">>,
     Description |-> <<>>, Deadline |-> <<>>, IsCompleted |-> FALSE,
     IsRecurring |-> FALSE, RecurType |-> <<>>, RecurDay |-> 0,
     RecurWindow |-> 0, LastCompletedAt |-> <<>>, CreatedAt |-> ClockAt(0)]

\* task 1 is the monthly task of user 1, task u the one-off task of user u
GateTasks ==
    {[RecurringTask(1, 1, GateDay, GateWindow, <<>>)
         EXCEPT !.CreatedAt = ClockAt(0)]}
    \cup {OneOffTask(u, u) : u \in Users \ {1}}

\* the decimal text of a task id, as the buttons and the user write it
IDText(id) == <<Digits[id + 1]>>
GateIDs == {1, 2}

GateTexts == {wordDa, btnCancel, <<"o", "k">>, btnCancelDialog, menuLabelTasks}
GateMessages ==
    {Text(t) : t \in GateTexts}
    \cup {Command(c, IDText(id)) : c \in {"complete", "delete"}, id \in GateIDs}
GateCallbacks ==
    {p \o IDText(id) :
        p \in {cbCompletePrefix, cbDeletePrefix, cbConfirmPrefix}, id \in GateIDs}
    \cup {cbCancelPrefix \o IDText(1)}
GateFailures == {"none", "user"}

Init ==
    /\ conversations = NoConversations
    /\ confirmations = NoConfirmations
    /\ tasks = GateTasks
    /\ categories = {}
    /\ users = Users
    /\ nextTaskID = NumUsers + 1
    /\ nextCategoryID = 1
    /\ now = ClockAt(0)
    /\ ev = [op |-> "init", affirm |-> "none"]

GateMessage ==
    \E u \in Users, msg \in GateMessages, f \in GateFailures :
        Message(u, msg, f)
GateCallback ==
    \E u \in Users, data \in GateCallbacks, f \in GateFailures :
        Callback(u, data, f)
GateTick == \E t \in GateClock : Tick(t)

Next == GateMessage \/ GateCallback \/ GateTick

Spec == Init /\ [][Next]_vars

----------------------------------------------------------------------------
(* The confirmation gate: C1, C2, C3.                                      *)

\* the lifecycle calls of an update that changed the store
Executed(calls) == SelectSeq(calls, LAMBDA c : c.err = "none")

\* the confirmationRequest a lifecycle call carries out
RequestOf(c) ==
    [taskID |-> c.task,
     action |-> IF c.op = "DeleteTask" THEN actionDelete ELSE actionComplete]

\* the last update is a typed confirmation that directly follows a typed
\* confirmation of the same user which answered a pending request
TwiceInARow ==
    /\ ev.op = "message" /\ ev.affirm = "typed"
    /\ ev.prev # <<>>
    /\ ev.prev[1].affirm = "typed"
    /\ ev.prev[1].branch = "confirmation"

\* C1 (as amended): when the affirmative response to one pending
\* confirmation is received twice in a row, the guarded action is executed
\* at most once: the first response makes at most one call, the call of the
\* pending request, which takes effect exactly when the handler reports the
\* task completed or deleted; the second response finds no pending
\* confirmation and executes nothing.
C1_SecondResponseExecutesNothing ==
    TwiceInARow =>
        LET first == ev.prev[1] IN
        /\ ev.pending = <<>>
        /\ ev.calls = <<>>
        /\ Len(first.calls) <= 1
        /\ \A i \in 1..Len(first.calls) :
              /\ first.calls[i].user = ev.user
              /\ <<RequestOf(first.calls[i])>> = first.pending
        /\ (Len(Executed(first.calls)) = 1)
              <=> (first.outcome \in {"completed", "deleted"})

\* C1 witness: the first response executed the pending request, the second
\* one followed it and did nothing
C1_Witness ==
    /\ TwiceInARow
    /\ Len(Executed(ev.prev[1].calls)) = 1
    /\ ev.calls = <<>>
    /\ ev.pending = <<>>

\* C1 as stated: the two responses together execute the action exactly once
C1_ExactlyOnce ==
    TwiceInARow =>
        Len(Executed(ev.prev[1].calls)) + Len(Executed(ev.calls)) = 1

\* the request a confirm:<id> button answers
CallbackRequest(data) ==
    [taskID |-> parseTaskID(data, cbConfirmPrefix), action |-> actionComplete]

\* the last two updates are affirmative inputs of one user for the request
\* that was pending when the first of them arrived
TwoAffirmativeInputs ==
    /\ ev.affirm # "none"
    /\ ev.prev # <<>>
    /\ ev.prev[1].pending # <<>>
    /\ LET first == ev.prev[1]
           req   == first.pending[1]
       IN  /\ \/ first.affirm = "typed" /\ first.branch = "confirmation"
              \/ first.affirm = "callback" /\ CallbackRequest(first.input.Text) = req
           /\ \/ ev.affirm = "typed"
              \/ ev.affirm = "callback" /\ CallbackRequest(ev.input.Text) = req

\* C2: two affirmative inputs for the same pending action, processed back
\* to back in either order, execute the guarded operation at most once.
C2_AtMostOnce ==
    TwoAffirmativeInputs =>
        Len(Executed(ev.prev[1].calls)) + Len(Executed(ev.calls)) <= 1

\* C3: every CompleteTask or DeleteTask executed for a user answers a
\* request for that user, task and action that was pending when the update
\* arrived, and the update is an affirmative input.
C3_ConfirmedBeforeExecuted ==
    ev.op \in {"message", "callback"} =>
        \A i \in 1..Len(ev.calls) :
            ev.calls[i].err = "none" =>
                /\ ev.affirm # "none"
                /\ ev.calls[i].user = ev.user
                /\ ev.pending = <<RequestOf(ev.calls[i])>>

\* the request an inline complete:<id> or delete:<id> button makes
ButtonRequest(data) ==
    IF HasPrefix(data, cbDeletePrefix)
    THEN [taskID |-> parseTaskID(data, cbDeletePrefix), action |-> actionDelete]
    ELSE [taskID |-> parseTaskID(data, cbCompletePrefix),
          action |-> actionComplete]

\* the last update is a typed confirmation that directly follows a request
\* of the same user, made while another request of that user was pending
AnswersSecondRequest ==
    /\ ev.op = "message" /\ ev.affirm = "typed"
    /\ ev.prev # <<>>
    /\ ev.prev[1].op = "callback" /\ ev.prev[1].outcome = "asked"

\* C11: a request that is asked leaves exactly its own (task, action)
\* pending, whatever was pending before; a typed confirmation that follows
\* the second of two requests finds the second one pending, makes no call
\* but the call of that request, for the responding user, and leaves
\* nothing pending.
C11_LastRequestWins ==
    /\ (ev.op = "callback" /\ ev.outcome = "asked") =>
            confirmations[ev.user] = <<ButtonRequest(ev.input.Text)>>
    /\ AnswersSecondRequest =>
            LET last == ButtonRequest(ev.prev[1].input.Text) IN
            /\ ev.pending = <<last>>
            /\ Len(ev.calls) <= 1
            /\ \A i \in 1..Len(ev.calls) :
                  /\ RequestOf(ev.calls[i]) = last
                  /\ ev.calls[i].user = ev.user
            /\ confirmations[ev.user] = <<>>

\* C11 witness: a request replaced a different pending one, and the typed
\* confirmation that followed executed the later request
C11_Witness ==
    /\ AnswersSecondRequest
    /\ ev.prev[1].pending # <<ButtonRequest(ev.prev[1].input.Text)>>
    /\ Len(Executed(ev.calls)) = 1
    /\ RequestOf(ev.calls[1]) = ButtonRequest(ev.prev[1].input.Text)

\* the last update is a typed confirmation that found a request pending
TypedConfirmation ==
    /\ ev.op = "message" /\ ev.affirm = "typed"
    /\ ev.branch = "confirmation"

\* the rows of a table other than the row of owner u with id taskID
RowsBut(rows, u, taskID) ==
    {t \in rows : ~(t.UserID = u /\ t.ID = taskID)}

\* C12: a typed confirmation that finds a request pending leaves the slot
\* empty whether or not the action then succeeds, makes at most one call,
\* the stored action on the stored task id for the responding user, and
\* touches no row but that user's row of that id: a completed task carries
\* the time of the response, a deleted one is gone.
C12_ExecutesStoredRequest ==
    TypedConfirmation =>
        LET req == ev.pending[1] IN
        /\ confirmations[ev.user] = <<>>
        /\ Len(ev.calls) <= 1
        /\ \A i \in 1..Len(ev.calls) :
              /\ RequestOf(ev.calls[i]) = req
              /\ ev.calls[i].user = ev.user
        /\ RowsBut(tasks, ev.user, req.taskID)
              = RowsBut(ev.before, ev.user, req.taskID)
        /\ IF Len(Executed(ev.calls)) = 0 THEN tasks = ev.before
           ELSE IF req.action = actionDelete
           THEN tasks = RowsBut(ev.before, ev.user, req.taskID)
           ELSE \E t \in tasks :
                   /\ t.UserID = ev.user /\ t.ID = req.taskID
                   /\ t.LastCompletedAt = <<ev.calls[1].at>>

\* C12 witness: the stored request was a delete, and the typed confirmation
\* removed that task and nothing else
C12_Witness ==
    /\ TypedConfirmation
    /\ ev.pending[1].action = actionDelete
    /\ Len(Executed(ev.calls)) = 1
    /\ ev.calls[1].op = "DeleteTask"
    /\ tasks # ev.before
    /\ confirmations[ev.user] = <<>>

\* the cancel tokens of a dialog, in lower case
CancelTokens == {ToLower(btnCancelDialog), wordCancelDialogRu, wordCancelRu}

\* the confirm tokens and the cancellation tokens, in lower case: the
\* cancel button and word of a confirmation, and the cancel tokens of a
\* dialog, which cancel a pending confirmation as well
ConfirmTokens == {ToLower(btnConfirm), wordConfirmRu, wordDa}
NegativeTokens == {ToLower(btnCancel), wordCancelRu} \cup CancelTokens

\* the last update is a plain text of a user who had a request pending
TextWhilePending ==
    /\ ev.op = "message"
    /\ ~ev.input.IsCommand
    /\ ev.pending # <<>>

\* C13: a negative response to a pending confirmation leaves the slot empty
\* and executes neither CompleteTask nor DeleteTask: the task table is as it
\* was.
C13_NegativeClearsAndExecutesNothing ==
    (TextWhilePending
        /\ TrimSpace(ToLower(ev.input.Text)) \in NegativeTokens) =>
            /\ confirmations[ev.user] = <<>>
            /\ ev.calls = <<>>
            /\ tasks = ev.before

\* C13 witness: the cancel button answered a pending delete, and the task is
\* still there
C13_Witness ==
    /\ TextWhilePending
    /\ ev.input.Text = btnCancel
    /\ ev.pending[1].action = actionDelete
    /\ confirmations[ev.user] = <<>>
    /\ \E t \in tasks : t.UserID = ev.user /\ t.ID = ev.pending[1].taskID

DoneAt(task, at) ==
    IF task.IsRecurring
    THEN /\ task.LastCompletedAt # <<>>
         /\ TimeYear(task.LastCompletedAt[1]) = TimeYear(at)
         /\ TimeMonth(task.LastCompletedAt[1]) = TimeMonth(at)
         /\ InDueWindow(task.RecurDay, task.RecurWindow,
                        task.LastCompletedAt[1])
    ELSE task.IsCompleted

\* the tasks of user u with id taskID that are done now
DoneTasks(u, taskID) ==
    {t \in tasks : t.UserID = u /\ t.ID = taskID /\ DoneAt(t, now)}

\* the completion an affirmative input asks for: the pending request of a
\* typed confirmation, the id of a confirm:<id> button
AffirmedCompletion(e, pending) ==
    IF e.affirm = "typed"
    THEN IF pending # <<>> /\ pending[1].action = actionComplete
         THEN {pending[1].taskID} ELSE {}
    ELSE IF e.affirm = "callback"
    THEN {CallbackRequest(e.input.Text).taskID}
    ELSE {}

\* C27: an update that asks to confirm the completion of a task that is
\* done never leaves a request for it and, when the store answers, reports
\* "already done"; an affirmative input for the completion of a task that
\* is done makes no call of CompleteTask and leaves the store as it is
C27_NoCompletionOfDone ==
    [][now' = now =>
          /\ (/\ ev'.op = "callback"
              /\ HasPrefix(ev'.input.Text, cbCompletePrefix)
              /\ DoneTasks(ev'.user, ButtonRequest(ev'.input.Text).taskID) # {})
                => /\ ev'.outcome \in {"alreadyDone", "userError", "store"}
                   /\ confirmations' = confirmations
          /\ \A id \in AffirmedCompletion(ev', confirmations[ev'.user]) :
                DoneTasks(ev'.user, id) # {}
                    => /\ ev'.calls = <<>>
                       /\ tasks' = tasks]_vars

\* a typed confirmation answered a pending completion request for a task
\* that had become done meanwhile, and was told so
C27_Witness ==
    /\ TypedConfirmation
    /\ ev.pending # <<>>
    /\ ev.pending[1].action = actionComplete
    /\ ev.outcome = "alreadyDone"
    /\ ev.calls = <<>>

\* a complete:<id> button pressed for a task that is done was told so
C27_AskedForDone ==
    /\ ev.op = "callback"
    /\ HasPrefix(ev.input.Text, cbCompletePrefix)
    /\ ev.outcome = "alreadyDone"
----------------------------------------------------------------------------
(* SpecCycle: one monthly task through two months.  The clock runs in      *)
(* 12-hour steps from 2024-04-28 00:00 (April has 30 days) into June; at   *)
(* any point the owner may mark the task done, and the daily report may    *)
(* be built.                                                               *)

CycleDays == {1, 3, 30, 31}
CycleStart == GoDate(2024, 4, 28, 0)
CycleStep == HoursPerDay \div 2
CycleEnd == CycleStart + MaxHalfDays * CycleStep

CycleInit ==
    /\ conversations = NoConversations
    /\ confirmations = NoConfirmations
    /\ \E d \in CycleDays, w \in 0..MaxWindow :
          tasks = {[RecurringTask(1, 1, d, w, <<>>)
                       EXCEPT !.CreatedAt = CycleStart]}
    /\ categories = {}
    /\ users = {1}
    /\ nextTaskID = 2
    /\ nextCategoryID = 1
    /\ now = CycleStart
    /\ ev = [op |-> "init", affirm |-> "none"]

\* the clock moves on
CycleTick ==
    /\ now + CycleStep <= CycleEnd
    /\ now' = now + CycleStep
    /\ ev' = [op |-> "tick", affirm |-> "none"]
    /\ UNCHANGED <<conversations, confirmations, tasks, categories, users,
                   nextTaskID, nextCategoryID>>

\* TaskService.CompleteTask(user 1, task 1, time.Now())
CycleComplete ==
    \E c \in {CompleteTask(1, 1, now, "none")} :
        /\ tasks' = c.tasks
        /\ ev' = [op |-> "CompleteTask", affirm |-> "none", at |-> now,
                  err |-> c.err,
                  dueBefore |-> {t.ID : t \in {x \in tasks : recurringDue(x, now)}}]
        /\ UNCHANGED <<conversations, confirmations, categories, users,
                       nextTaskID, nextCategoryID, now>>

\* the two call sites at one instant: the digest's loop asks recurringDue,
\* the complete button asks isRecurringDoneInWindow
CycleCheck ==
    /\ ev' = [op |-> "check", affirm |-> "none", at |-> now,
              due |-> {t.ID : t \in {x \in tasks : recurringDue(x, now)}},
              done |-> {t.ID : t \in {x \in tasks :
                                         isRecurringDoneInWindow(x, now)}}]
    /\ UNCHANGED <<conversations, confirmations, tasks, categories, users,
                   nextTaskID, nextCategoryID, now>>

CycleNext == CycleTick \/ CycleComplete \/ CycleCheck

SpecCycle == CycleInit /\ [][CycleNext]_vars

\* the instant t lies in the month after the month of the instant s
FollowingMonth(s, t) ==
    TimeYear(t) * 12 + TimeMonth(t) = TimeYear(s) * 12 + TimeMonth(s) + 1

SameMonth(s, t) == TimeYear(t) = TimeYear(s) /\ TimeMonth(t) = TimeMonth(s)

\* C6: a recurring task marked satisfied at an instant inside its window is
\* not due at any later instant of that window in the same month and year,
\* and is due again inside the window of the following month; marking it
\* inside the window records the instant and ends its being due at once.
C6_SatisfiedUntilNextWindow ==
    \A task \in tasks :
        /\ (ev.op = "CompleteTask" /\ ev.err = "none"
              /\ InDueWindow(task.RecurDay, task.RecurWindow, ev.at)) =>
                 /\ task.LastCompletedAt = <<ev.at>>
                 /\ ev.dueBefore \subseteq {task.ID}
                 /\ ~recurringDue(task, now)
        /\ (/\ task.LastCompletedAt # <<>>
            /\ InDueWindow(task.RecurDay, task.RecurWindow,
                           task.LastCompletedAt[1])) =>
                 LET s == task.LastCompletedAt[1] IN
                 /\ (now >= s /\ SameMonth(s, now)
                       /\ InDueWindow(task.RecurDay, task.RecurWindow, now))
                      => ~recurringDue(task, now)
                 /\ (FollowingMonth(s, now)
                       /\ InDueWindow(task.RecurDay, task.RecurWindow, now))
                      => recurringDue(task, now)

\* C6 witness: day 31 with the widest window, satisfied on the last day of
\* April (30 days), and due again at the end of May
C6_Witness ==
    \E task \in tasks :
        /\ task.RecurDay = 31 /\ task.RecurWindow = MaxWindow
        /\ task.LastCompletedAt = <<GoDate(2024, 4, 30, 0)>>
        /\ TimeMonth(now) = 5
        /\ recurringDue(task, now)


\* the monthly tasks whose window of now's month holds now
InWindowNow ==
    {task \in tasks :
        /\ task.IsRecurring
        /\ task.RecurType = <<"m", "o", "n", "t", "h", "l", "y">>
        /\ task.RecurDay \in 1..31
        /\ InDueWindow(task.RecurDay, task.RecurWindow, now)}

\* C34: for a monthly task and an instant inside its window of the
\* instant's month the digest's check answers true exactly when the check
\* in front of the confirmation answers false, and so did the two call
\* sites when they were asked at the same instant
C34_CallSitesAgree ==
    \A task \in InWindowNow :
        /\ recurringDue(task, now) = ~isRecurringDoneInWindow(task, now)
        /\ ev.op = "check" =>
              (task.ID \in ev.due) = (task.ID \notin ev.done)

\* both sites were asked inside the May window of a task marked at the end
\* of April, inside that window: due again, and not done
C34_Witness ==
    /\ ev.op = "check"
    /\ \E task \in InWindowNow :
          /\ task.RecurDay = 1 /\ task.RecurWindow = 2
          /\ task.LastCompletedAt = <<GoDate(2024, 4, 30, 0)>>
          /\ TimeMonth(now) = 5
          /\ task.ID \in ev.due /\ task.ID \notin ev.done

\* both sites were asked inside the window of a task marked inside it in
\* the same month: done, and not due
C34_DoneNotDue ==
    /\ ev.op = "check"
    /\ \E task \in InWindowNow :
          /\ task.ID \in ev.done /\ task.ID \notin ev.due

\* the tasks marked in the month and year of now, before the window of
\* that month opened, while now is inside the window
MarkedBeforeWindow ==
    {task \in InWindowNow :
        /\ task.LastCompletedAt # <<>>
        /\ SameMonth(task.LastCompletedAt[1], now)
        /\ task.LastCompletedAt[1]
              < DueStart(task.RecurDay, now) - task.RecurWindow * HoursPerDay}

\* C35: a task marked in the month and year of now but before its window
\* opened is not taken as satisfied: at every instant of the window the
\* digest's check answers true and the check in front of the confirmation
\* answers false
C35_EarlyMarkNotSatisfied ==
    \A task \in MarkedBeforeWindow :
        /\ recurringDue(task, now)
        /\ ~isRecurringDoneInWindow(task, now)
        /\ ev.op = "check" =>
              task.ID \in ev.due /\ task.ID \notin ev.done

\* a task of day 3 and radius 1 was marked on the first of May and both
\* sites were asked at the last instant of its window
C35_Witness ==
    /\ ev.op = "check"
    /\ \E task \in MarkedBeforeWindow :
          /\ task.RecurDay = 3 /\ task.RecurWindow = 1
          /\ task.LastCompletedAt = <<GoDate(2024, 5, 1, 0)>>
          /\ now = GoDate(2024, 5, 4, 0)
          /\ task.ID \in ev.due
----------------------------------------------------------------------------
(* The task-creation dialog: one user talks to the bot from an empty       *)
(* store.  Every message goes through handleMessage; what the user types   *)
(* depends on the stage the dialog is at.                                  *)

ConvUser == 1

txtTitle == <<"t">>
txtJunk == <<"x">>
txtDash == <<"-">>
txtDate == <<"2", "0", "2", "5", "-", "1", "1", "-", "3", "0">>
txtNoSuchDay == <<"2", "0", "2", "5", "-", "0", "2", "-", "3", "0">>

\* what is typed while the title, the description or the category is asked
FreeTexts == {txtTitle, <<>>, <<" ">>, txtDash}

\* what is typed while the description or the category is asked
OptionalTexts == FreeTexts \cup {<<"S", "k", "i", "p">>}

\* what is typed while the deadline, the yes/no answer, the day or the
\* window is asked
StageTexts ==
    {txtDate, txtNoSuchDay, txtJunk, <<>>, txtDash, wordDa, wordNet,
     <<"0">>, <<"1">>, <<"1", "4">>, <<"1", "5">>, <<"3", "1">>, <<"3", "2">>, <<"-", "1">>, <<"+", "5">>,
     <<"~D", "~a">>, <<"Y", "e", "S">>, <<"~N", "~E", "~T">>, <<"N", "o">>,
     <<" ", "y">>, <<"n", "o", "t">>}

\* what may be sent at every stage: the triggers of a new dialog, the cancel
\* tokens, the cancel command and a command that leaves the dialog alone
TriggerMessages == {Command("newtask", <<>>), Text(menuLabelNewTask)}

CancelMessages == {Text(btnCancelDialog), Text(wordCancelDialogRu)}

ConvMessages(u) ==
    TriggerMessages \cup CancelMessages
        \cup {Command("cancel", <<>>), Command("help", <<>>)}
        \cup {Text(t) : t \in
                 IF conversations[u] = <<>> THEN {txtJunk}
                 ELSE IF conversations[u][1].stage = stageTitle
                 THEN FreeTexts
                 ELSE IF conversations[u][1].stage \in
                            {stageDescription, stageCategory}
                 THEN OptionalTexts
                 ELSE StageTexts}

ConvFailures == {"none", "user", "category", "write"}

ConvInit ==
    /\ conversations = NoConversations
    /\ confirmations = NoConfirmations
    /\ tasks = {}
    /\ categories = {}
    /\ users = {}
    /\ nextTaskID = 1
    /\ nextCategoryID = 1
    /\ now = ClockAt(0)
    /\ ev = [op |-> "init", affirm |-> "none"]

\* one message of the user; a new dialog is opened only while fewer than
\* MaxTasks tasks are stored
ConvMessage ==
    \E msg \in ConvMessages(ConvUser), f \in ConvFailures :
        /\ msg \in TriggerMessages => nextTaskID <= MaxTasks
        /\ Message(ConvUser, msg, f)

ConvNext == ConvMessage

SpecConv == ConvInit /\ [][ConvNext]_vars

----------------------------------------------------------------------------
(* The dialog's inputs as the specification reads them: numerals and       *)
(* dates are written out from their values and compared with the text      *)
(* that was typed.                                                         *)

DigitChars == <<"0", "1", "2", "3", "4", "5", "6", "7", "8", "9">>

\* the decimal numeral of the natural number n
RECURSIVE Numeral(_)
Numeral(n) ==
    IF n < 10 THEN <<DigitChars[n + 1]>>
    ELSE Numeral(n \div 10) \o <<DigitChars[(n % 10) + 1]>>

\* the numeral of n in at least two digits
Numeral2(n) == IF n < 10 THEN <<"0">> \o Numeral(n) ELSE Numeral(n)

\* the text is an integer between lo and hi (lo >= 0), with or without "+"
IsIntegerIn(text, lo, hi) ==
    \E n \in lo..hi : text = Numeral(n) \/ text = <<"+">> \o Numeral(n)

\* the integer such a text denotes
IntegerOf(text) ==
    CHOOSE n \in 0..MaxRecurDay :
        text = Numeral(n) \/ text = <<"+">> \o Numeral(n)

\* the text is a calendar date written YYYY-MM-DD
IsCalendarDate(text) ==
    /\ Len(text) = 10
    /\ AllDigits(SubSeq(text, 1, 4))
    /\ \E m \in 1..12 :
         \E d \in 1..MonthLength(m, DecimalVal(SubSeq(text, 1, 4))) :
            SubSeq(text, 5, 10) =
                <<"-">> \o Numeral2(m) \o <<"-">> \o Numeral2(d)

\* the message is free text handled by the dialog that was open before it
DialogInput ==
    /\ ev.op = "message"
    /\ ~ev.input.IsCommand
    /\ ev.branch = "conversation"
    /\ ev.conv # <<>>

\* the text typed is invalid for the stage the dialog was at
InvalidAt(stage, raw) ==
    LET text == TrimSpace(raw)
    IN  \/ stage = stageDeadline /\ ~isSkipInput(text) /\ ~IsCalendarDate(text)
        \/ /\ stage = stageRecurringDay
           /\ ~IsIntegerIn(text, MinRecurDay, MaxRecurDay)
        \/ /\ stage = stageRecurringWindow
           /\ ~IsIntegerIn(text, MinRecurWindow, MaxRecurWindow)

\* C7: at the deadline stage a text that is neither the skip token nor a
\* date, at the day stage a text that is not an integer in 1..31, and at the
\* window stage a text that is not an integer in 0..14, leave the stage and
\* the draft as they were and make no CreateTask call.
C7_InvalidInputKeepsStage ==
    (DialogInput /\ InvalidAt(ev.conv[1].stage, ev.input.Text)) =>
        /\ conversations[ev.user] = ev.conv
        /\ ev.calls = <<>>
        /\ ev.outcome = "reprompt"

\* C7 witness: day 32 was typed at the day stage of a dialog with a title,
\* and the dialog is still at the day stage
C7_Witness ==
    /\ DialogInput
    /\ ev.conv[1].stage = stageRecurringDay
    /\ ev.conv[1].input.Title = txtTitle
    /\ ev.input.Text = <<"3", "2">>
    /\ conversations[ev.user] = ev.conv

\* C8: an empty title never advances the dialog: while the title is asked a
\* text that is empty after trimming leaves the dialog where it was, and no
\* dialog is past the title stage with an empty title.
C8_EmptyTitleNeverAdvances ==
    /\ (DialogInput /\ ev.conv[1].stage = stageTitle
          /\ TrimSpace(ev.input.Text) = <<>>) =>
            conversations[ev.user] = ev.conv
    /\ \A u \in Users :
         (conversations[u] # <<>> /\ conversations[u][1].stage # stageTitle)
            => conversations[u][1].input.Title # <<>>

\* the update is a cancel token sent as plain text
IsCancelToken(e) ==
    /\ e.op = "message"
    /\ ~e.input.IsCommand
    /\ TrimSpace(ToLower(e.input.Text)) \in CancelTokens

\* the dialog a trigger opens: the title is asked and the draft is empty
FreshConversation == <<[stage |-> stageTitle, input |-> EmptyInput]>>

\* C9: a cancel token sent while a dialog is open removes the dialog and
\* makes no CreateTask call; a trigger sent afterwards leaves no field of
\* the cancelled draft behind: the dialog it opens asks for the title with
\* the empty draft, and when it opens none (the user could not be stored)
\* no dialog exists.
C9_CancelDiscardsDraft ==
    /\ (IsCancelToken(ev) /\ ev.conv # <<>>) =>
            /\ conversations[ev.user] = <<>>
            /\ ev.calls = <<>>
    /\ (StartsDialog(ev.op, ev.input) /\ ev.prev # <<>>) =>
            /\ IsCancelToken(ev.prev[1]) /\ ev.conv = <<>>
            /\ ev.calls = <<>>
            /\ conversations[ev.user] =
                   IF ev.outcome = "started" THEN FreshConversation ELSE <<>>
    /\ (StartsDialog(ev.op, ev.input) /\ ev.outcome = "started") =>
            conversations[ev.user] = FreshConversation

\* C9 witness: a dialog that had reached the window stage was cancelled,
\* and the trigger that followed opened a dialog with the empty draft
C9_Witness ==
    /\ StartsDialog(ev.op, ev.input)
    /\ ev.prev # <<>>
    /\ ev.prev[1].conv[1].stage = stageRecurringWindow
    /\ ev.prev[1].conv[1].input.Title = txtTitle
    /\ conversations[ev.user] = FreshConversation
    /\ tasks = {}

\* the message is the last answer of a dialog: "no" to the recurrence
\* question, or a valid window
FinalStep ==
    /\ DialogInput
    /\ LET text == TrimSpace(ev.input.Text)
       IN  \/ /\ ev.conv[1].stage = stageRecurring
              /\ isNoWord(ToLower(text))
           \/ /\ ev.conv[1].stage = stageRecurringWindow
              /\ IsIntegerIn(text, MinRecurWindow, MaxRecurWindow)

\* the draft the last answer completes
FinalDraft ==
    IF ev.conv[1].stage = stageRecurring
    THEN [ev.conv[1].input EXCEPT !.IsRecurring = FALSE]
    ELSE [ev.conv[1].input EXCEPT
             !.RecurWindow = IntegerOf(TrimSpace(ev.input.Text))]

\* the calls of the last update that are CreateTask calls
CreateCalls == SelectSeq(ev.calls, LAMBDA c : c.op = "CreateTask")

\* C10 as stated: on the last answer CreateTask is invoked once with the
\* accumulated draft and the dialog is removed, whether CreateTask succeeded
\* or failed.
C10_CreateOnceThenRemove ==
    FinalStep =>
        /\ Len(CreateCalls) = 1
        /\ CreateCalls[1].input = FinalDraft
        /\ conversations[ev.user] = <<>>

\* C10 amended: on the last answer CreateTask is invoked at most once, with
\* the accumulated draft: once when the user record could be stored, not at
\* all when it could not; the dialog is removed in every case, whether
\* CreateTask succeeded, failed or was not reached.
C10_CreateAtMostOnceThenRemove ==
    FinalStep =>
        /\ conversations[ev.user] = <<>>
        /\ ev.calls = CreateCalls
        /\ IF ev.outcome = "userError"
           THEN ev.calls = <<>>
           ELSE /\ Len(ev.calls) = 1
                /\ ev.calls[1].input = FinalDraft
                /\ ev.calls[1].user = ev.user
                /\ (ev.calls[1].err = "none") <=> (ev.outcome = "created")

\* C10 witness: CreateTask was called with a recurring draft and failed, and
\* the dialog is gone
C10_Witness ==
    /\ FinalStep
    /\ ev.conv[1].stage = stageRecurringWindow
    /\ Len(ev.calls) = 1
    /\ ev.calls[1].err = "store"
    /\ ev.calls[1].input.RecurWindow = MaxRecurWindow
    /\ conversations[ev.user] = <<>>
    /\ tasks = {}


\* the stages in the order in which the dialog asks
StageOrder ==
    <<stageTitle, stageDescription, stageCategory, stageDeadline,
      stageRecurring, stageRecurringDay, stageRecurringWindow>>

PositionOf(stage) == CHOOSE i \in 1..Len(StageOrder) : StageOrder[i] = stage

\* the last update is a message that found a dialog open and is no trigger
\* of a new one
MessageInDialog ==
    /\ ev.op = "message"
    /\ ev.conv # <<>>
    /\ ~StartsDialog(ev.op, ev.input)

\* C30: a message that finds a dialog open and does not open a new one
\* leaves the dialog at its stage, moves it to the stage that follows in
\* the order, or ends it; every stage of a dialog is one of the order
C30_StageStepsForward ==
    /\ \A u \in Users :
          conversations[u] # <<>> =>
              \E i \in 1..Len(StageOrder) :
                  StageOrder[i] = conversations[u][1].stage
    /\ MessageInDialog =>
          \/ conversations[ev.user] = <<>>
          \/ conversations[ev.user][1].stage = ev.conv[1].stage
          \/ PositionOf(conversations[ev.user][1].stage)
                = PositionOf(ev.conv[1].stage) + 1

\* the answer that makes the task recurring moved the dialog from the
\* recurrence question to the day of the month
C30_Witness ==
    /\ MessageInDialog
    /\ ev.conv[1].stage = stageRecurring
    /\ conversations[ev.user] # <<>>
    /\ conversations[ev.user][1].stage = stageRecurringDay

\* the answer that makes the task one-off ended the dialog at the
\* recurrence question
C30_EndedAtFlag ==
    /\ MessageInDialog
    /\ ev.conv[1].stage = stageRecurring
    /\ ev.branch = "conversation"
    /\ conversations[ev.user] = <<>>

\* the vocabulary of the recurrence question, and the capital of each of
\* its letters
YesWords == {wordDa, <<"y", "e", "s">>, <<"y">>}
NoWords == {wordNet, <<"n", "o">>, <<"n">>, <<"-">>}

CapitalOf(r) ==
    CASE r = "y" -> "Y" [] r = "e" -> "E" [] r = "s" -> "S"
      [] r = "n" -> "N" [] r = "o" -> "O"
      [] r = "~d" -> "~D" [] r = "~a" -> "~A" [] r = "~n" -> "~N"
      [] r = "~e" -> "~E" [] r = "~t" -> "~T"
      [] OTHER -> r

\* text is one of the words, each letter small or capital
InAnyCase(text, words) ==
    \E w \in words :
        /\ Len(text) = Len(w)
        /\ \A i \in 1..Len(w) : text[i] \in {w[i], CapitalOf(w[i])}

\* the last update is a text the dialog handled at the recurrence question
AnswerAtFlag == DialogInput /\ ev.conv[1].stage = stageRecurring

\* C31: at the recurrence question a yes word in any letter case moves the
\* dialog to the day stage with the draft flagged recurring and nothing
\* else changed; a no word in any letter case ends the dialog through
\* finishTaskCreation with the draft flagged one-off; any other text
\* leaves the stage and the draft as they were and calls nothing
C31_FlagVocabulary ==
    AnswerAtFlag =>
        LET text  == TrimSpace(ev.input.Text)
            draft == ev.conv[1].input
        IN  IF InAnyCase(text, YesWords)
            THEN /\ conversations[ev.user] =
                       <<[stage |-> stageRecurringDay,
                          input |-> [draft EXCEPT !.IsRecurring = TRUE]]>>
                 /\ ev.calls = <<>>
            ELSE IF InAnyCase(text, NoWords)
            THEN /\ conversations[ev.user] = <<>>
                 /\ ev.outcome \in {"created", "createFailed", "userError"}
                 /\ \A i \in 1..Len(ev.calls) :
                       /\ ev.calls[i].op = "CreateTask"
                       /\ ev.calls[i].input =
                              [draft EXCEPT !.IsRecurring = FALSE]
                 /\ ev.outcome # "userError" => Len(ev.calls) = 1
                 /\ ev.outcome = "created" =>
                       \E t \in tasks :
                           /\ t.ID = nextTaskID - 1
                           /\ ~t.IsRecurring
            ELSE /\ conversations[ev.user] = ev.conv
                 /\ ev.calls = <<>>

\* a capitalised Cyrillic yes moved the dialog to the day stage
C31_Witness ==
    /\ AnswerAtFlag
    /\ ev.input.Text = <<"~D", "~a">>
    /\ conversations[ev.user] # <<>>
    /\ conversations[ev.user][1].stage = stageRecurringDay
    /\ conversations[ev.user][1].input.IsRecurring

\* a capitalised no stored a one-off task
C31_NoStored ==
    /\ AnswerAtFlag
    /\ ev.input.Text = <<"~N", "~E", "~T">>
    /\ ev.outcome = "created"
    /\ \E t \in tasks : ~t.IsRecurring

\* a word outside the vocabulary left the dialog at the question
C31_Reprompted ==
    /\ AnswerAtFlag
    /\ ev.input.Text = <<"n", "o", "t">>
    /\ conversations[ev.user] = ev.conv

\* the skip tokens in small letters: the dash, the label of the skip button,
\* and the two words
SkipWords ==
    {<<"-">>,
     <<"#skip", " ", "~p", "~r", "~o", "~p", "~u", "~s", "~t", "~i", "~t", "~'">>,
     <<"~p", "~r", "~o", "~p", "~u", "~s", "~t", "~i", "~t", "~'">>,
     <<"s", "k", "i", "p">>}

CapitalOfSkip(r) ==
    CASE r = "s" -> "S" [] r = "k" -> "K" [] r = "i" -> "I" [] r = "p" -> "P"
      [] r = "~p" -> "~P" [] OTHER -> r

IsSkipToken(text) ==
    \E w \in SkipWords :
        /\ Len(text) = Len(w)
        /\ \A i \in 1..Len(w) : text[i] \in {w[i], CapitalOfSkip(w[i])}

\* the instant a text written YYYY-MM-DD names: 00:00 of that day
DateOf(text) ==
    CHOOSE t \in {GoDate(DecimalVal(SubSeq(text, 1, 4)), m, d, 0) :
                     m \in 1..12, d \in 1..31} :
        \E m \in 1..12, d \in 1..31 :
            /\ SubSeq(text, 5, 10) =
                  <<"-">> \o Numeral2(m) \o <<"-">> \o Numeral2(d)
            /\ t = GoDate(DecimalVal(SubSeq(text, 1, 4)), m, d, 0)

\* the stages that ask for the optional fields, with the field each fills
\* and the stage that follows
OptionalStages == {stageDescription, stageCategory, stageDeadline}

\* the draft after the text was accepted at the stage
Accepted(stage, draft, text) ==
    IF IsSkipToken(text) THEN draft
    ELSE IF stage = stageDescription THEN [draft EXCEPT !.Description = text]
    ELSE IF stage = stageCategory THEN [draft EXCEPT !.Category = text]
    ELSE [draft EXCEPT !.Deadline = <<DateOf(text)>>]

\* C32: while a dialog waits at the description, category or deadline stage
\* the fields still to be asked are empty; at these stages the skip token
\* leaves the field empty and moves on, any other accepted text becomes
\* the field and nothing else in the draft changes; and the draft handed to
\* CreateTask is the draft the dialog held with its last answer added
C32_SkipAndStore ==
    /\ \A u \in Users :
          conversations[u] # <<>> =>
              LET c == conversations[u][1]
              IN  /\ c.stage \in {stageTitle, stageDescription}
                        => c.input.Description = <<>>
                  /\ c.stage \in {stageTitle, stageDescription, stageCategory}
                        => c.input.Category = <<>>
                  /\ c.stage \in {stageTitle} \cup OptionalStages
                        => c.input.Deadline = <<>>
    /\ (DialogInput /\ ev.conv[1].stage \in OptionalStages
           /\ ~InvalidAt(ev.conv[1].stage, ev.input.Text)) =>
          /\ ev.calls = <<>>
          /\ conversations[ev.user] =
                <<[stage |-> StageOrder[PositionOf(ev.conv[1].stage) + 1],
                   input |-> Accepted(ev.conv[1].stage, ev.conv[1].input,
                                      TrimSpace(ev.input.Text))]>>
    /\ FinalStep =>
          \A i \in 1..Len(ev.calls) :
              /\ ev.calls[i].op = "CreateTask"
              /\ ev.calls[i].input = FinalDraft

\* the skip word, capitalised, was typed at the category stage of a dialog
\* with a description, and the dialog went on without a category
C32_Witness ==
    /\ DialogInput
    /\ ev.conv[1].stage = stageCategory
    /\ ev.conv[1].input.Description = txtTitle
    /\ ev.input.Text = <<"S", "k", "i", "p">>
    /\ conversations[ev.user] # <<>>
    /\ conversations[ev.user][1].stage = stageDeadline
    /\ conversations[ev.user][1].input.Category = <<>>

\* a task was stored from a draft with a description, no category and a
\* deadline
C32_Stored ==
    /\ FinalStep
    /\ Len(ev.calls) = 1
    /\ ev.calls[1].err = "none"
    /\ ev.calls[1].input.Description = txtTitle
    /\ ev.calls[1].input.Category = <<>>
    /\ ev.calls[1].input.Deadline = <<GoDate(2025, 11, 30, 0)>>

\* the row the last update stored, if it stored one
StoredRows ==
    IF DialogInput /\ ev.outcome = "created"
    THEN {t \in tasks : t.ID = nextTaskID - 1}
    ELSE {}

\* C33: every task the dialog has stored has a title; it is one-off with
\* day and window 0, or recurring monthly with a day in 1..31 and a window
\* in 0..14; and the row just stored has the day and the window of the
\* draft it was made from
C33_CreatedTaskShape ==
    /\ \A t \in tasks :
          /\ t.Title # <<>>
          /\ IF t.IsRecurring
             THEN /\ t.RecurType = <<"m", "o", "n", "t", "h", "l", "y">>
                  /\ t.RecurDay \in 1..31
                  /\ t.RecurWindow \in 0..14
             ELSE t.RecurDay = 0 /\ t.RecurWindow = 0
    /\ \A t \in StoredRows :
          /\ t.IsRecurring = FinalDraft.IsRecurring
          /\ t.Title = FinalDraft.Title
          /\ t.IsRecurring =>
                /\ t.RecurDay = FinalDraft.RecurDay
                /\ t.RecurWindow = FinalDraft.RecurWindow

\* a recurring task with day 31 and window 14 was stored from the dialog
C33_Witness ==
    \E t \in StoredRows :
        t.IsRecurring /\ t.RecurDay = 31 /\ t.RecurWindow = 14

\* a one-off task was stored from the dialog
C33_OneOff ==
    \E t \in StoredRows : ~t.IsRecurring /\ t.Title = txtTitle

\* the last update is a text the dialog took as the answer of its stage:
\* a title that is not empty, any description or category, the skip token
\* or a date, a yes or a no word, a day, a window
AcceptedInput ==
    /\ DialogInput
    /\ ~InvalidAt(ev.conv[1].stage, ev.input.Text)
    /\ ev.conv[1].stage = stageTitle => TrimSpace(ev.input.Text) # <<>>
    /\ ev.conv[1].stage = stageRecurring =>
          InAnyCase(TrimSpace(ev.input.Text), YesWords \cup NoWords)

\* the last update took the dialog of its user away
DialogEnded == ev.op = "message" /\ ev.conv # <<>> /\ conversations[ev.user] = <<>>

\* the last update is the command /cancel
CancelCommand ==
    ev.op = "message" /\ ev.input.IsCommand /\ ev.input.Command = "cancel"

\* C38 as stated, its count of calls: the answer that ends the dialog, the
\* fifth on the no branch and the seventh on the yes branch, comes with
\* exactly one CreateTask call
C38_ExactlyOneCreate ==
    (AcceptedInput /\ FinalStep) =>
        /\ PositionOf(ev.conv[1].stage) \in {5, 7}
        /\ Len(CreateCalls) = 1

\* C38: a dialog comes to be only by a trigger and then asks for the title
\* with the empty draft; an accepted answer that is not the last moves the
\* dialog from the n-th stage to the next and calls nothing, so that the
\* n-th stage is reached by n - 1 accepted answers; the last answer is the
\* one at the fifth stage with a no word or the one at the seventh, it ends
\* the dialog and comes with one CreateTask call, or with none when the
\* user could not be stored; no other update calls CreateTask; and a dialog
\* ends only by its last answer, a cancel token, the cancel command or the
\* reset of an unknown stage
C38_OneEntryCountedExit ==
    /\ (ev.op = "message" /\ ev.conv = <<>> /\ conversations[ev.user] # <<>>)
          => /\ StartsDialog(ev.op, ev.input)
             /\ conversations[ev.user] = FreshConversation
    /\ (AcceptedInput /\ ~FinalStep) =>
          /\ conversations[ev.user] # <<>>
          /\ PositionOf(conversations[ev.user][1].stage)
                = PositionOf(ev.conv[1].stage) + 1
          /\ ev.calls = <<>>
    /\ (AcceptedInput /\ FinalStep) =>
          /\ \/ /\ PositionOf(ev.conv[1].stage) = 5
                /\ ~ev.conv[1].input.IsRecurring
             \/ /\ PositionOf(ev.conv[1].stage) = 7
                /\ ev.conv[1].input.IsRecurring
          /\ conversations[ev.user] = <<>>
          /\ ev.calls = CreateCalls
          /\ Len(ev.calls) = IF ev.outcome = "userError" THEN 0 ELSE 1
    /\ (ev.op = "message" /\ ev.calls # <<>>) => AcceptedInput /\ FinalStep
    /\ DialogEnded =>
          \/ FinalStep
          \/ IsCancelToken(ev)
          \/ CancelCommand
          \/ ev.outcome = "reset"

\* the seventh answer of a dialog, a window, stored a recurring task
C38_Witness ==
    /\ AcceptedInput /\ FinalStep
    /\ PositionOf(ev.conv[1].stage) = 7
    /\ Len(ev.calls) = 1
    /\ ev.outcome = "created"
    /\ conversations[ev.user] = <<>>

\* the fifth answer of a dialog, a no word, stored a one-off task
C38_FifthAnswer ==
    /\ AcceptedInput /\ FinalStep
    /\ PositionOf(ev.conv[1].stage) = 5
    /\ Len(ev.calls) = 1
    /\ ev.outcome = "created"
----------------------------------------------------------------------------
(* SpecSvc: the lifecycle service under its callers.  Any user may create, *)
(* complete or delete at any time, with any task id, while the clock moves *)
(* on; the store may fail a call.                                          *)

MaxRows == 2

txtCat == <<"c">>
txtCatUpper == <<"C">>

\* the drafts CreateTask is given
SvcInputs ==
    {[EmptyInput EXCEPT !.Title = title, !.Category = cat,
                        !.IsRecurring = rec,
                        !.RecurDay = IF rec THEN GateDay ELSE 0,
                        !.RecurWindow = IF rec THEN GateWindow ELSE 0] :
        title \in {<<>>, txtTitle}, cat \in {txtCat, txtCatUpper},
        rec \in BOOLEAN}

\* the task ids the callers name: each is absent before it is given out and
\* after its row is deleted
SvcIDs == 1..MaxRows

SvcInit ==
    /\ conversations = NoConversations
    /\ confirmations = NoConfirmations
    /\ tasks = {}
    /\ categories = {}
    /\ users = Users
    /\ nextTaskID = 1
    /\ nextCategoryID = 1
    /\ now = ClockAt(0)
    /\ ev = [op |-> "init", affirm |-> "none"]

\* what the history keeps of one call of the service
SvcCall(op, u, taskID, input, f, err) ==
    [op |-> op, affirm |-> "none", user |-> u, task |-> taskID,
     input |-> input, at |-> now, fault |-> f, err |-> err,
     found |-> {t \in tasks : t.ID = taskID}]

\* TaskService.CreateTask(user, input); at most MaxRows rows are ever stored
SvcCreate ==
    \E u \in Users, input \in SvcInputs, f \in {"none", "write"} :
        /\ nextTaskID <= MaxRows
        /\ \E c \in {CreateTask(u, input, f)} :
              /\ tasks' = c.tasks
              /\ categories' = c.categories
              /\ nextTaskID' = c.nextTaskID
              /\ nextCategoryID' = c.nextCategoryID
              /\ ev' = SvcCall("CreateTask", u, 0, input, f, c.err)
        /\ UNCHANGED <<conversations, confirmations, users, now>>

\* TaskService.CompleteTask(user, taskID, time.Now())
SvcComplete ==
    \E u \in Users, id \in SvcIDs, f \in {"none", "get", "write"} :
        \E c \in {CompleteTask(u, id, now, f)} :
            /\ tasks' = c.tasks
            /\ ev' = SvcCall("CompleteTask", u, id, EmptyInput, f, c.err)
            /\ UNCHANGED <<conversations, confirmations, categories, users,
                           nextTaskID, nextCategoryID, now>>

\* TaskService.DeleteTask(user, taskID)
SvcDelete ==
    \E u \in Users, id \in SvcIDs, f \in {"none", "write"} :
        \E d \in {DeleteTask(u, id, f)} :
            /\ tasks' = d.tasks
            /\ ev' = SvcCall("DeleteTask", u, id, EmptyInput, f, d.err)
            /\ UNCHANGED <<conversations, confirmations, categories, users,
                           nextTaskID, nextCategoryID, now>>

\* the clock moves on
SvcTick ==
    /\ \E t \in GateClock : t > now /\ now' = t
    /\ ev' = [op |-> "tick", affirm |-> "none"]
    /\ UNCHANGED <<conversations, confirmations, tasks, categories, users,
                   nextTaskID, nextCategoryID>>

\* TaskService.ListActive(user)
SvcList ==
    \E u \in Users, f \in {"none", "list"} :
        \E l \in ListActive(u, f) :
            /\ ev' = [op |-> "ListActive", affirm |-> "none", user |-> u,
                      task |-> 0, input |-> EmptyInput, at |-> now,
                      fault |-> f, err |-> l.err, found |-> {},
                      rows |-> l.rows]
            /\ UNCHANGED <<conversations, confirmations, tasks, categories,
                           users, nextTaskID, nextCategoryID, now>>

SvcNext == SvcCreate \/ SvcComplete \/ SvcDelete \/ SvcTick \/ SvcList

SpecSvc == SvcInit /\ [][SvcNext]_vars

\* the rows of a table that user u owns under id taskID
Owned(rows, u, taskID) == {t \in rows : t.UserID = u /\ t.ID = taskID}

\* C15: CompleteTask(owner, taskId, at) on an owned task succeeds unless the
\* store fails; when it succeeds the owner's row, and no other, changes:
\* last_satisfied_at becomes at, completed becomes true on a one-off task
\* and stays as it was on a recurring one, whether or not the task had been
\* completed before.
C15_CompleteSetsSatisfaction ==
    [][ev'.op = "CompleteTask" =>
          /\ (ev'.fault = "none" /\ Owned(tasks, ev'.user, ev'.task) # {})
                => ev'.err = "none"
          /\ ev'.err = "none" =>
                \E t \in Owned(tasks, ev'.user, ev'.task) :
                    /\ ev'.at = now
                    /\ tasks' = (tasks \ {t}) \cup
                          {[t EXCEPT !.LastCompletedAt = <<now>>,
                                     !.IsCompleted =
                                         IF t.IsRecurring THEN @ ELSE TRUE]}
      ]_vars

\* C15 witness: a recurring task satisfied at the first clock point was
\* completed again at a later one; it carries the later time and is not
\* completed
C15_Witness ==
    /\ ev.op = "CompleteTask" /\ ev.err = "none"
    /\ ev.at > ClockAt(0)
    /\ \E old \in Owned(ev.found, ev.user, ev.task) :
          /\ old.IsRecurring
          /\ old.LastCompletedAt = <<ClockAt(0)>>
          /\ [old EXCEPT !.LastCompletedAt = <<ev.at>>] \in tasks
          /\ ~old.IsCompleted

\* C16: no recurring task has completed = true.
C16_RecurringNeverCompleted ==
    \A t \in tasks : t.IsRecurring => ~t.IsCompleted

\* C16 witness: a recurring task and a one-off task are stored and both
\* have been completed
C16_Witness ==
    /\ \E t \in tasks : t.IsRecurring /\ t.LastCompletedAt # <<>>
    /\ \E t \in tasks : ~t.IsRecurring /\ t.IsCompleted
    /\ ev.op = "CompleteTask" /\ ev.err = "none"

\* C17: CompleteTask(owner, taskId, at) for a task id that is absent or
\* owned by another user fails and changes no task; the failure is NotFound
\* whenever the lookup itself was answered.
C17_CompleteForeignNotFound ==
    [][(ev'.op = "CompleteTask" /\ Owned(tasks, ev'.user, ev'.task) = {}) =>
          /\ ev'.err # "none"
          /\ ev'.fault # "get" => ev'.err = "notFound"
          /\ tasks' = tasks
      ]_vars

\* C17 witness: a user tried to complete a task another user owns, got
\* NotFound, and the other user's row is as it was
C17_Witness ==
    /\ ev.op = "CompleteTask" /\ ev.err = "notFound"
    /\ ev.found # {}
    /\ \A t \in ev.found : t.UserID # ev.user
    /\ ev.found \subseteq tasks

\* C18: DeleteTask(owner, taskId) removes an owned task, one-off or
\* recurring, and for a task id that is absent or owned by another user
\* fails with NotFound and removes no task.
C18_DeleteOwnedOrNotFound ==
    (ev.op = "DeleteTask" /\ ev.fault = "none") =>
        IF Owned(ev.found, ev.user, ev.task) # {}
        THEN /\ ev.err = "none"
             /\ Owned(tasks, ev.user, ev.task) = {}
        ELSE /\ ev.err = "notFound"
             /\ ev.found \subseteq tasks

\* C19: CreateTask with an empty title fails with a validation error and
\* leaves the stored tasks and the stored categories as they were.
C19_EmptyTitleRejected ==
    [][(ev'.op = "CreateTask" /\ ev'.input.Title = <<>>) =>
          /\ ev'.err = "validation"
          /\ tasks' = tasks
          /\ categories' = categories
          /\ nextTaskID' = nextTaskID
          /\ nextCategoryID' = nextCategoryID
      ]_vars

\* C19 witness: a draft with a category name and no title was rejected, and
\* the store holds neither a task nor a category
C19_Witness ==
    /\ ev.op = "CreateTask" /\ ev.err = "validation"
    /\ ev.input.Title = <<>>
    /\ ev.input.Category = txtCat
    /\ tasks = {} /\ categories = {}

\* C20: no owner has two categories of one name, and a CreateTask with a
\* title and a category name that the store does not fail ends with a
\* category of that name owned by the caller, which the new task carries.
C20_CategoryPerOwner ==
    /\ \A c \in categories, d \in categories :
          (c.UserID = d.UserID /\ c.Name = d.Name) => c = d
    /\ (ev.op = "CreateTask" /\ ev.fault = "none"
          /\ ev.input.Title # <<>> /\ ev.input.Category # <<>>) =>
            /\ ev.err = "none"
            /\ \E c \in categories :
                  /\ c.UserID = ev.user /\ c.Name = ev.input.Category
                  /\ \E t \in tasks :
                        t.UserID = ev.user /\ t.CategoryID = <<c.ID>>


(***************************************************************************)
(* The daily digest: ReminderService.DailySummary composes one user's      *)
(* report, Bot.SendDailyReports runs it over every known user and          *)
(* Bot.handleReport for the user who asks.  The store holds MaxDigestRows  *)
(* rows of either user; the history keeps what the last run composed and   *)
(* sent.                                                                   *)
(***************************************************************************)
MaxDigestRows == 3

\* the less function of the sort with undated rows older-created first
pendingLessOlderFirst(a, b) ==
    IF a.Deadline = <<>> /\ b.Deadline = <<>> THEN a.CreatedAt < b.CreatedAt
    ELSE IF a.Deadline = <<>> THEN FALSE
    ELSE IF b.Deadline = <<>> THEN TRUE
    ELSE a.Deadline[1] < b.Deadline[1]

\* the less function DailySummary hands to sort.SliceStable
pendingLess(a, b) ==
    IF a.Deadline = <<>> /\ b.Deadline = <<>> THEN a.CreatedAt > b.CreatedAt
    ELSE IF a.Deadline = <<>> THEN FALSE
    ELSE IF b.Deadline = <<>> THEN TRUE
    ELSE a.Deadline[1] < b.Deadline[1]

\* sort.SliceStable(pending, less): each row goes in front of the first row
\* it is less than, so rows that compare equal keep their order
insertPending(sorted, x) ==
    LET firstLess == {i \in 1..Len(sorted) : pendingLess(x, sorted[i])}
        at == IF firstLess = {} THEN Len(sorted) + 1
              ELSE CHOOSE i \in firstLess : \A j \in firstLess : i <= j
    IN  SubSeq(sorted, 1, at - 1) \o <<x>> \o SubSeq(sorted, at, Len(sorted))

RECURSIVE sortPending(_)
sortPending(s) ==
    IF s = <<>> THEN <<>>
    ELSE insertPending(sortPending(SubSeq(s, 1, Len(s) - 1)), s[Len(s)])

\* the lines of a report: heading, date, a section's heading, a section's
\* placeholder, and the block formatTask or formatRecurring writes for a row
lineTitle == [line |-> "report"]
lineDate(t) == [line |-> "date", year |-> TimeYear(t),
                month |-> TimeMonth(t), day |-> TimeDay(t)]
lineSection(section) == [line |-> "section", section |-> section]
linePlaceholder(section) == [line |-> "nothing", section |-> section]
formatTask(task) == [line |-> "task", section |-> "pending", ID |-> task.ID]
formatRecurring(task) ==
    [line |-> "task", section |-> "recurring", ID |-> task.ID]

\* the partition loop of DailySummary
pendingOf(rows) ==
    SelectSeq(rows, LAMBDA t : ~t.IsRecurring /\ ~t.IsCompleted)
recurringDueOf(rows, t) ==
    SelectSeq(rows, LAMBDA task : task.IsRecurring /\ recurringDue(task, t))

\* a report with an empty section left out instead of the placeholder
sectionLinesOmitted(section, rows) ==
    IF rows = <<>> THEN <<>>
    ELSE <<lineSection(section)>>
         \o [i \in 1..Len(rows) |->
                IF section = "pending" THEN formatTask(rows[i])
                ELSE formatRecurring(rows[i])]

\* one section of the report: its heading, then its rows or its placeholder
sectionLines(section, rows) ==
    <<lineSection(section)>>
    \o IF rows = <<>> THEN <<linePlaceholder(section)>>
       ELSE [i \in 1..Len(rows) |->
                IF section = "pending" THEN formatTask(rows[i])
                ELSE formatRecurring(rows[i])]

\* DailySummary once the store has answered with rows
composeSummary(rows, t) ==
    CHOOSE summary \in
        {[err |-> "none", pending |-> pending, recurringDue |-> due,
          text |-> <<lineTitle, lineDate(t)>>
                   \o sectionLines("pending", pending)
                   \o sectionLines("recurring", due)] :
            pending \in {sortPending(pendingOf(rows))},
            due \in {recurringDueOf(rows, t)}} : TRUE

noSummary == [err |-> "store", pending |-> <<>>, recurringDue |-> <<>>,
              text |-> <<>>]

\* ReminderService.DailySummary(user, now): every report it can return
DailySummary(userID, t, f) ==
    IF f \in {"list", "categories"} THEN {noSummary}
    ELSE {composeSummary(rows, t) : rows \in ListActiveOrRecurring(userID)}



\* one pass of the loop of SendDailyReports, from the i-th listed user on;
\* this one gives up at the first report that cannot be built or sent
RECURSIVE reportLoopStopsOnFailure(_, _, _, _, _)
reportLoopStopsOnFailure(list, i, summaries, sendFails, cancelAt) ==
    IF i > Len(list) THEN [err |-> "none", steps |-> <<>>]
    ELSE IF cancelAt = i THEN [err |-> "cancelled", steps |-> <<>>]
    ELSE LET u == list[i]
             step == [user |-> u, summary |-> summaries[u],
                      sent |-> IF summaries[u].err # "none" THEN "skipped"
                               ELSE IF sendFails[u] THEN "failed" ELSE "ok"]
             rest == reportLoopStopsOnFailure(list, i + 1, summaries,
                                              sendFails, cancelAt)
         IN  IF step.sent # "ok"
             THEN [err |-> "store", steps |-> <<step>>]
             ELSE [err |-> rest.err, steps |-> <<step>> \o rest.steps]

\* the loop with the context looked at once, in front of the first user
RECURSIVE reportLoopCheckedAtStart(_, _, _, _, _)
reportLoopCheckedAtStart(list, i, summaries, sendFails, cancelAt) ==
    IF i > Len(list) THEN [err |-> "none", steps |-> <<>>]
    ELSE IF cancelAt = i /\ i = 1 THEN [err |-> "cancelled", steps |-> <<>>]
    ELSE LET u == list[i]
             step == [user |-> u, summary |-> summaries[u],
                      sent |-> IF summaries[u].err # "none" THEN "skipped"
                               ELSE IF sendFails[u] THEN "failed" ELSE "ok"]
             rest == reportLoopCheckedAtStart(list, i + 1, summaries,
                                              sendFails, cancelAt)
         IN  [err |-> rest.err, steps |-> <<step>> \o rest.steps]

\* the loop of Bot.SendDailyReports from the i-th listed user on: the
\* context is found done in front of user cancelAt, a report that cannot be
\* built is logged and skipped, one that cannot be sent is logged
RECURSIVE reportLoop(_, _, _, _, _)
reportLoop(list, i, summaries, sendFails, cancelAt) ==
    IF i > Len(list) THEN [err |-> "none", steps |-> <<>>]
    ELSE IF cancelAt = i THEN [err |-> "cancelled", steps |-> <<>>]
    ELSE LET u == list[i]
             step == [user |-> u, summary |-> summaries[u],
                      sent |-> IF summaries[u].err # "none" THEN "skipped"
                               ELSE IF sendFails[u] THEN "failed" ELSE "ok"]
             rest == reportLoop(list, i + 1, summaries, sendFails, cancelAt)
         IN  [err |-> rest.err, steps |-> <<step>> \o rest.steps]

\* Bot.SendDailyReports: UserRepository.ListAll, then the loop
SendDailyReports(list, listFails, summaries, sendFails, cancelAt) ==
    IF listFails THEN [err |-> "store", steps |-> <<>>]
    ELSE reportLoop(list, 1, summaries, sendFails, cancelAt)

\* Bot.handleReport: the report of the user who asks for it
handleReport(u, summary, f) ==
    IF f = "user" THEN [err |-> "store", steps |-> <<>>]
    ELSE [err |-> "none",
          steps |-> <<[user |-> u, summary |-> summary,
                       sent |-> IF summary.err # "none" THEN "apology"
                                ELSE "ok"]>>]

\* the rows the store starts with: one-off rows without a deadline, older
\* and newer, with an earlier and a later deadline, a completed one, and a
\* monthly row
DigestShapes ==
    {"undated-old", "undated-new", "dated-early", "dated-late", "done",
     "monthly"}
digestCreatedOld == GoDate(2024, 5, 1, 9)
digestCreatedNew == GoDate(2024, 5, 2, 9)
digestEarly == GoDate(2024, 5, 10, 0)
digestLate == GoDate(2024, 5, 20, 0)

DigestRow(id, owner, shape) ==
    IF shape = "monthly"
    THEN [RecurringTask(id, owner, GateDay, GateWindow, <<>>)
             EXCEPT !.CreatedAt = digestCreatedOld]
    ELSE [OneOffTask(id, owner) EXCEPT
             !.CreatedAt = IF shape = "undated-new" THEN digestCreatedNew
                           ELSE digestCreatedOld,
             !.Deadline = IF shape = "dated-early" THEN <<digestEarly>>
                          ELSE IF shape = "dated-late" THEN <<digestLate>>
                          ELSE <<>>,
             !.IsCompleted = (shape = "done")]

DigestStores ==
    {{DigestRow(id, r[id][1], r[id][2]) : id \in 1..MaxDigestRows} :
        r \in [1..MaxDigestRows -> Users \X DigestShapes]}

\* the orders in which ListAll, which asks for none, can return the users
UserLists ==
    {s \in [1..NumUsers -> Users] :
        \A i, j \in 1..NumUsers : i # j => s[i] # s[j]}

DigestFaults == {"none", "list", "send"}

DigestInit ==
    /\ conversations = NoConversations
    /\ confirmations = NoConfirmations
    /\ tasks \in DigestStores
    /\ categories = {}
    /\ users = Users
    /\ nextTaskID = MaxDigestRows + 1
    /\ nextCategoryID = 1
    /\ now = ClockAt(0)
    /\ ev = [op |-> "init", affirm |-> "none"]

\* the summaries the composer can return to one run, one per user; each
\* holds for every user the reports DailySummary can return without a fault
SummariesFor(each, faults) ==
    {s \in [Users -> {noSummary} \cup UNION {each[u] : u \in Users}] :
        \A u \in Users :
            IF faults[u] = "list" THEN s[u] = noSummary ELSE s[u] \in each[u]}

\* the reports DailySummary can return for the users 1..n, in a sequence
RECURSIVE summariesUpTo(_)
summariesUpTo(n) ==
    IF n = 0 THEN <<>>
    ELSE Append(summariesUpTo(n - 1), DailySummary(n, now, "none"))

ReportsRun(r, list, cancelAt) ==
    /\ ev' = [op |-> "SendDailyReports", affirm |-> "none", at |-> now,
              list |-> list, cancelAt |-> cancelAt, err |-> r.err,
              steps |-> r.steps]
    /\ UNCHANGED <<conversations, confirmations, tasks, categories, users,
                   nextTaskID, nextCategoryID, now>>

\* the scheduled job: Bot.SendDailyReports(jobCtx) at time.Now(), once for
\* each time the interval has passed
DigestReports ==
    /\ ev.op = "tick"
    /\ \/ \E r \in {SendDailyReports(<<>>, TRUE, <<>>, <<>>, 0)} :
             ReportsRun(r, <<>>, 0)
       \/ \E each \in {summariesUpTo(NumUsers)} :
             \E list \in UserLists, faults \in [Users -> DigestFaults],
                cancelAt \in 1..(NumUsers + 1) :
                 \E summaries \in SummariesFor(each, faults) :
                     \E r \in {SendDailyReports(list, FALSE, summaries,
                                   [u \in Users |-> faults[u] = "send"],
                                   cancelAt)} :
                         ReportsRun(r, list, cancelAt)

\* the report command of one user
DigestReport ==
    \E u \in Users, f \in {"none", "user", "list"} :
        \E summary \in DailySummary(u, now, f) :
            \E r \in {handleReport(u, summary, f)} :
                /\ ev' = [op |-> "handleReport", affirm |-> "none",
                          at |-> now, list |-> <<u>>, err |-> r.err,
                          steps |-> r.steps]
                /\ UNCHANGED <<conversations, confirmations, tasks,
                               categories, users, nextTaskID,
                               nextCategoryID, now>>

\* the interval of SchedulerService.ScheduleInterval has passed: the job
\* that runs the reports is due
DigestTick ==
    /\ \E t \in GateClock : t >= now /\ now' = t
    /\ ev' = [op |-> "tick", affirm |-> "none"]
    /\ UNCHANGED <<conversations, confirmations, tasks, categories, users,
                   nextTaskID, nextCategoryID>>

DigestNext == DigestReports \/ DigestReport \/ DigestTick

SpecDigest == DigestInit /\ [][DigestNext]_vars



\* the reports the last run has composed, each with the user it is for
Digests ==
    IF ev.op \in {"SendDailyReports", "handleReport"}
    THEN {ev.steps[i] : i \in {k \in 1..Len(ev.steps) :
                                   ev.steps[k].summary.err = "none"}}
    ELSE {}

\* the rows a section of a report shows, in the order of its lines
SectionRows(text, section) ==
    LET shown == SelectSeq(text, LAMBDA l : l.line = "task"
                                            /\ l.section = section)
    IN  [i \in 1..Len(shown) |-> CHOOSE t \in tasks : t.ID = shown[i].ID]

\* C21: in the one-off section of every report a row with a deadline comes
\* before every row without one, rows with deadlines are in ascending
\* order of deadline, and rows without are in descending order of creation
C21_OneOffSectionOrder ==
    \A d \in Digests :
        LET p == SectionRows(d.summary.text, "pending")
        IN  \A i, j \in 1..Len(p) :
                i < j =>
                    /\ p[i].Deadline = <<>> => p[j].Deadline = <<>>
                    /\ p[i].Deadline # <<>> /\ p[j].Deadline # <<>>
                          => p[i].Deadline[1] <= p[j].Deadline[1]
                    /\ p[i].Deadline = <<>> /\ p[j].Deadline = <<>>
                          => p[i].CreatedAt >= p[j].CreatedAt

\* a report whose one-off section holds a row with a deadline and two rows
\* without, created at different times
C21_Witness ==
    \E d \in Digests :
        LET p == SectionRows(d.summary.text, "pending")
        IN  /\ Len(p) >= 3
            /\ \E i \in 1..Len(p) : p[i].Deadline # <<>>
            /\ \E i, j \in 1..Len(p) :
                  /\ p[i].Deadline = <<>> /\ p[j].Deadline = <<>>
                  /\ p[i].CreatedAt # p[j].CreatedAt

\* the set of the elements of a sequence
Range(s) == {s[i] : i \in 1..Len(s)}

\* the lines of a report that are the given line
Count(text, l) == Cardinality({i \in 1..Len(text) : text[i] = l})

\* C22: the first section of a report for user u at the instant of the run
\* lists exactly u's one-off rows that are not completed, the second
\* exactly u's recurring rows that are due at that instant, each row once;
\* both section headings are there, and a section shows its placeholder
\* exactly when it lists no row
C22_SectionsExactAndPresent ==
    \A d \in Digests :
        LET text  == d.summary.text
            first == SectionRows(text, "pending")
            second == SectionRows(text, "recurring")
        IN  /\ Range(first) = {t \in tasks : /\ t.UserID = d.user
                                             /\ ~t.IsRecurring
                                             /\ ~t.IsCompleted}
            /\ Range(second) = {t \in tasks : /\ t.UserID = d.user
                                              /\ t.IsRecurring
                                              /\ recurringDue(t, ev.at)}
            /\ Len(first) = Cardinality(Range(first))
            /\ Len(second) = Cardinality(Range(second))
            /\ \A section \in {"pending", "recurring"} :
                  /\ Count(text, lineSection(section)) = 1
                  /\ Count(text, linePlaceholder(section))
                        = IF SectionRows(text, section) = <<>> THEN 1 ELSE 0

\* a report with an empty first section and a due recurring row in the
\* second, for a user with a completed row, while the other user has an
\* open one-off row
C22_Witness ==
    \E d \in Digests :
        /\ SectionRows(d.summary.text, "pending") = <<>>
        /\ SectionRows(d.summary.text, "recurring") # <<>>
        /\ \E t \in tasks : t.UserID = d.user /\ t.IsCompleted
        /\ \E t \in tasks : t.UserID # d.user /\ ~t.IsRecurring
                            /\ ~t.IsCompleted



\* a step of a run at which the report could not be built or not be sent
FailedStep(step) == step.summary.err # "none" \/ step.sent = "failed"

\* a run over the listed users that the context did not cut short
UncancelledRun ==
    /\ ev.op = "SendDailyReports"
    /\ ev.list # <<>>
    /\ ev.err # "cancelled"

\* C23: a run over all users that is not cancelled passes every listed user
\* in turn whatever failed for the users before: each is composed for, each
\* report that was composed is handed to the transport, and the run returns
\* no error
C23_RunSurvivesFailures ==
    UncancelledRun =>
        /\ ev.err = "none"
        /\ Len(ev.steps) = Len(ev.list)
        /\ \A i \in 1..Len(ev.steps) :
              /\ ev.steps[i].user = ev.list[i]
              /\ ev.steps[i].summary.err = "none"
                    => ev.steps[i].sent \in {"ok", "failed"}

\* a run in which the report of one user could not be built or not be
\* sent, and a later user still received theirs
C23_Witness ==
    /\ UncancelledRun
    /\ \E i, j \in 1..Len(ev.steps) :
          /\ i < j
          /\ FailedStep(ev.steps[i])
          /\ ev.steps[j].summary.err = "none"
          /\ ev.steps[j].sent = "ok"



\* a run whose context was done when the loop came to one of the listed
\* users
CancelledRun ==
    /\ ev.op = "SendDailyReports"
    /\ ev.cancelAt \in 1..Len(ev.list)

\* C37: when the context is done in front of a user's turn the run returns
\* the context's error, and it has composed and sent for the users listed
\* before that one only: nothing for that user, nothing for a later one
C37_CancelStopsRun ==
    CancelledRun =>
        /\ ev.err = "cancelled"
        /\ Len(ev.steps) = ev.cancelAt - 1
        /\ \A i \in 1..Len(ev.steps) : ev.steps[i].user = ev.list[i]
        /\ \A j \in ev.cancelAt..Len(ev.list) :
              \A i \in 1..Len(ev.steps) : ev.steps[i].user # ev.list[j]

\* the context was done in front of the second user: the first has the
\* report, the run ended with the context's error
C37_Witness ==
    /\ CancelledRun
    /\ ev.cancelAt = 2
    /\ ev.err = "cancelled"
    /\ Len(ev.steps) = 1
    /\ ev.steps[1].sent = "ok"

----------------------------------------------------------------------------
(* SpecSlots: the two maps of the bot together.  Over the store of the     *)
(* gate one user opens and cancels new-task dialogs, types into them, asks *)
(* for confirmations with the list buttons and answers them; the other     *)
(* user's task is there as a task that is not this user's.                 *)

SlotTexts == {wordDa, txtTitle, btnCancel, btnCancelDialog, menuLabelTasks}
SlotMessages ==
    {Text(t) : t \in SlotTexts}
    \cup {Command("newtask", <<>>), Text(menuLabelNewTask),
          Command("cancel", <<>>)}
    \cup {Command("complete", IDText(id)) : id \in GateIDs}
SlotCallbacks ==
    {p \o IDText(id) : p \in {cbCompletePrefix, cbDeletePrefix},
                       id \in GateIDs}
SlotFailures == {"none", "user", "get"}

SlotMessage ==
    \E msg \in SlotMessages, f \in SlotFailures : Message(ConvUser, msg, f)
SlotCallback ==
    \E data \in SlotCallbacks, f \in SlotFailures :
        Callback(ConvUser, data, f)
SlotTick == \E t \in GateClock : Tick(t)

SlotNext == SlotMessage \/ SlotCallback \/ SlotTick

SpecSlots == Init /\ [][SlotNext]_vars



\* a message that is free text: no command, no menu label, no token that
\* cancels the dialog
FreeText(msg) ==
    /\ ~msg.IsCommand
    /\ menuAlias(msg.Text) = ""
    /\ ~isCancelDialogInput(msg.Text)

\* the last update was free text of a user who had a pending confirmation
\* and an open conversation
FreeTextWithBoth ==
    /\ ev.op = "message"
    /\ ev.pending # <<>>
    /\ ev.conv # <<>>
    /\ FreeText(ev.input)

\* C25: free text of a user who has a pending confirmation and an open
\* conversation goes to the confirmation gate, whose handlers answer it,
\* and the conversation keeps its stage and its draft
C25_GateTakesFreeText ==
    FreeTextWithBoth =>
        /\ ev.branch = "confirmation"
        /\ ev.route \in {"handleConfirmationResponse",
                         "completeTaskAndRefresh", "deleteTaskAndRefresh"}
        /\ conversations[ev.user] = ev.conv

\* a confirming word typed in the middle of a dialog, with a draft that has
\* a title, completed the task of the pending request
C25_Witness ==
    /\ FreeTextWithBoth
    /\ ev.conv[1].stage # stageTitle
    /\ ev.conv[1].input.Title # <<>>
    /\ ev.outcome = "completed"



\* user u has an open conversation and a pending confirmation
Both(u) == conversations[u] # <<>> /\ confirmations[u] # <<>>

\* C26 as stated: no user ever has an open conversation and a pending
\* confirmation at the same time.
C26_MutuallyExclusive == \A u \in Users : ~Both(u)

\* C26: a user comes to have an open conversation and a pending
\* confirmation at the same time by exactly two kinds of update: a new-task
\* trigger that is accepted while a confirmation is pending and no
\* conversation is open, and a confirmation request that is accepted while a
\* conversation is open and no confirmation is pending.  No update gives a
\* user both from neither.
C26_BothOnlyByOverlap ==
    [][\A u \in Users :
          (~Both(u) /\ Both(u)')
              <=> /\ ev'.op \in {"message", "callback"}
                  /\ ev'.user = u
                  /\ \/ /\ StartsDialog(ev'.op, ev'.input)
                        /\ ev'.outcome = "started"
                        /\ conversations[u] = <<>>
                        /\ confirmations[u] # <<>>
                     \/ /\ ev'.outcome = "asked"
                        /\ conversations[u] # <<>>
                        /\ confirmations[u] = <<>>]_vars

\* a new-task trigger was accepted while a confirmation was pending: the
\* user has both
C26_Witness ==
    /\ ev.op = "message"
    /\ StartsDialog(ev.op, ev.input)
    /\ ev.pending # <<>>
    /\ ev.conv = <<>>
    /\ Both(ev.user)




\* the last update ended with "not found" or a store failure told to the
\* user in a message
SurfacedError ==
    /\ ev.op \in {"message", "callback"}
    /\ \/ /\ ev.route \in {"askCompleteConfirmation", "askDeleteConfirmation"}
          /\ ev.outcome = "notFound"
       \/ /\ ev.route \in {"handleComplete", "completeTaskAndRefresh",
                           "deleteTaskAndRefresh"}
          /\ ev.outcome \in {"notFound", "store"}

\* C29: after an update that told the user "not found" or a store failure,
\* the user has no open conversation and no pending confirmation
C29_ErrorClearsBoth ==
    SurfacedError =>
        /\ conversations[ev.user] = <<>>
        /\ confirmations[ev.user] = <<>>

\* a list button of a task that is not the user's was pressed during a
\* dialog and answered "not found": the dialog is still open
C29_DialogLeftOpen ==
    /\ SurfacedError
    /\ ev.op = "callback"
    /\ ev.conv # <<>>
    /\ conversations[ev.user] = ev.conv

\* the last update was a text with a token that cancels the dialog, typed
\* while a confirmation was pending
CancelTokenWhilePending ==
    /\ ev.op = "message"
    /\ ~ev.input.IsCommand
    /\ isCancelDialogInput(ev.input.Text)
    /\ ev.pending # <<>>

\* C39: a token that cancels the dialog, typed while a confirmation is
\* pending, leaves its user with no conversation and no pending
\* confirmation, calls neither CompleteTask nor DeleteTask and changes no
\* task
C39_CancelTokenClearsBoth ==
    CancelTokenWhilePending =>
        /\ conversations[ev.user] = <<>>
        /\ confirmations[ev.user] = <<>>
        /\ ev.calls = <<>>
        /\ tasks = ev.before

\* the token came in the middle of a dialog with a request pending: both
\* are gone and the task of the request is as it was
C39_Witness ==
    /\ CancelTokenWhilePending
    /\ ev.conv # <<>>
    /\ conversations[ev.user] = <<>>
    /\ confirmations[ev.user] = <<>>
    /\ \E t \in tasks : t.ID = ev.pending[1].taskID

\* the last update was /cancel of a user with a pending confirmation
CancelCommandWhilePending == CancelCommand /\ ev.pending # <<>>

\* C40: /cancel leaves its user with no conversation and with the pending
\* confirmation as it was, and calls nothing; and the free text that
\* follows a /cancel that found a confirmation pending goes to the
\* confirmation gate
C40_CancelCommandKeepsRequest ==
    /\ [](CancelCommand =>
            /\ conversations[ev.user] = <<>>
            /\ confirmations[ev.user] = ev.pending
            /\ ev.calls = <<>>
            /\ tasks = ev.before)
    /\ [][(/\ CancelCommandWhilePending
           /\ ev'.op = "message"
           /\ ev'.user = ev.user
           /\ ev' # ev
           /\ FreeText(ev'.input))
              => /\ ev'.branch = "confirmation"
                 /\ ev'.pending = ev.pending
                 /\ ev'.route \in {"handleConfirmationResponse",
                                   "completeTaskAndRefresh",
                                   "deleteTaskAndRefresh"}]_vars

\* /cancel came in the middle of a dialog with a request pending: the
\* dialog is gone, the request is still there
C40_Witness ==
    /\ CancelCommandWhilePending
    /\ ev.conv # <<>>
    /\ conversations[ev.user] = <<>>
    /\ confirmations[ev.user] = ev.pending


----------------------------------------------------------------------------
(* SpecLock: the accesses of one handler to the two maps, one access a     *)
(* step.  Bot.Start takes one update at a time, so one handler runs; the   *)
(* history holds its position (pc), what it has read (pending, state), and *)
(* of its last step whether it held Bot.mu (locked), which map it wrote    *)
(* (wrote) and whether it acted on a value it read in an earlier step,     *)
(* with the lock released in between (stale).                              *)

LockMessages == {Command("newtask", <<>>), Text(txtTitle), Text(wordDa)}
LockCallbacks == {cbCompletePrefix \o IDText(1)}

LockInit ==
    /\ conversations = NoConversations
    /\ confirmations = NoConfirmations
    /\ tasks = GateTasks
    /\ categories = {}
    /\ users = Users
    /\ nextTaskID = NumUsers + 1
    /\ nextCategoryID = 1
    /\ now = ClockAt(0)
    /\ ev = [op |-> "init", pc |-> "idle"]

\* the handler moves to position pc after a step op
LockStep(op, pc, locked, wrote, stale) ==
    [ev EXCEPT !.op = op, !.pc = pc, !.locked = locked, !.wrote = wrote,
               !.stale = stale]

LockFrame ==
    UNCHANGED <<tasks, categories, users, nextTaskID, nextCategoryID, now>>

\* Bot.Start takes the next update of the user and enters its handler
LockReceive ==
    /\ ev.pc = "idle"
    /\ \/ \E msg \in LockMessages :
             ev' = [op |-> "handleMessage", user |-> ConvUser, input |-> msg,
                    pc |-> IF msg.IsCommand THEN "setConversation"
                           ELSE "getConfirmation",
                    pending |-> <<>>, state |-> <<>>,
                    locked |-> FALSE, wrote |-> "none", stale |-> FALSE]
       \/ \E data \in LockCallbacks :
             ev' = [op |-> "handleCallback", user |-> ConvUser,
                    input |-> Text(data), pc |-> "setConfirmation",
                    pending |-> <<>>, state |-> <<>>,
                    locked |-> FALSE, wrote |-> "none", stale |-> FALSE]
    /\ UNCHANGED <<conversations, confirmations>>
    /\ LockFrame

\* startNewTaskConversation: setConversation, under the lock
LockSetConversation ==
    /\ ev.pc = "setConversation"
    /\ \E r \in {startNewTaskConversation(ev.user, "none")} :
          conversations' = r.conversations
    /\ ev' = LockStep("setConversation", "idle", TRUE, "conversation", FALSE)
    /\ UNCHANGED confirmations
    /\ LockFrame

\* askCompleteConfirmation: setConfirmation, under the lock
LockSetConfirmation ==
    /\ ev.pc = "setConfirmation"
    /\ \E r \in {handleCallback(ev.user, ev.input.Text, "none")} :
          /\ confirmations' = r.confirmations
          /\ ev' = LockStep("setConfirmation", "idle", r.outcome = "asked",
                            IF r.outcome = "asked" THEN "confirmation"
                            ELSE "none", FALSE)
    /\ UNCHANGED conversations
    /\ LockFrame

\* handleMessage: getConfirmation, under the lock
LockGetConfirmation ==
    /\ ev.pc = "getConfirmation"
    /\ ev' = [LockStep("getConfirmation",
                       IF confirmations[ev.user] # <<>>
                       THEN "handleConfirmationResponse"
                       ELSE "hasConversation", TRUE, "none", FALSE)
                 EXCEPT !.pending = confirmations[ev.user]]
    /\ UNCHANGED <<conversations, confirmations>>
    /\ LockFrame

\* handleConfirmationResponse on the request handleMessage has read: its
\* clearConfirmation under the lock, then the guarded action
LockHandleConfirmationResponse ==
    /\ ev.pc = "handleConfirmationResponse"
    /\ \E r \in {handleConfirmationResponse(ev.user, ev.input.Text,
                                           ev.pending[1], "none")} :
          /\ confirmations' = r.confirmations
          /\ tasks' = r.tasks
          /\ ev' = LockStep("clearConfirmation", "idle",
                            r.outcome # "reprompt",
                            IF r.outcome # "reprompt" THEN "confirmation"
                            ELSE "none",
                            r.outcome # "reprompt")
    /\ UNCHANGED <<conversations, categories, users, nextTaskID,
                   nextCategoryID, now>>

\* handleMessage: hasConversation, under the lock
LockHasConversation ==
    /\ ev.pc = "hasConversation"
    /\ ev' = LockStep("hasConversation",
                      IF conversations[ev.user] # <<>> THEN "getConversation"
                      ELSE "idle", TRUE, "none", FALSE)
    /\ UNCHANGED <<conversations, confirmations>>
    /\ LockFrame

\* handleConversation: getConversation, under the lock, returns the pointer
\* the map holds
LockGetConversation ==
    /\ ev.pc = "getConversation"
    /\ ev' = [LockStep("getConversation",
                       IF conversations[ev.user] # <<>> THEN "switch"
                       ELSE "idle", TRUE, "none", FALSE)
                 EXCEPT !.state = conversations[ev.user]]
    /\ UNCHANGED <<conversations, confirmations>>
    /\ LockFrame

\* handleConversation: the switch on state.stage, which assigns state.input
\* and state.stage through the pointer after getConversation has returned
LockSwitch ==
    /\ ev.pc = "switch"
    /\ \E r \in {handleConversation(ev.user, ev.input.Text, "none")} :
          /\ conversations' = r.conversations
          /\ ev' = LockStep("switch", "idle", FALSE,
                            IF r.conversations # conversations
                            THEN "conversation" ELSE "none",
                            r.conversations # conversations)
    /\ UNCHANGED confirmations
    /\ LockFrame

LockNext ==
    \/ LockReceive
    \/ LockSetConversation
    \/ LockSetConfirmation
    \/ LockGetConfirmation
    \/ LockHandleConfirmationResponse
    \/ LockHasConversation
    \/ LockGetConversation
    \/ LockSwitch

SpecLock == LockInit /\ [][LockNext]_vars

\* C28: every step of a handler that writes a user's conversation state or
\* confirmation slot holds the lock, and what it acts on it has read in the
\* same step, under the same hold of the lock
C28_WritesUnderLock ==
    (ev.op # "init" /\ ev.wrote # "none") => (ev.locked /\ ~ev.stale)

\* the stage and the draft were assigned with the lock not held
C28_StageWrittenUnlocked ==
    /\ ev.op = "switch"
    /\ ev.wrote = "conversation"
    /\ ~ev.locked


\* C36: the rows ListActive returns for a user are exactly that user's
\* rows that are recurring or not completed, each once: no completed
\* one-off row, every recurring row whether marked or not, and no row of
\* another user
C36_ListActiveExact ==
    (ev.op = "ListActive" /\ ev.err = "none") =>
        /\ Range(ev.rows) =
              {t \in tasks :
                  t.UserID = ev.user /\ (t.IsRecurring \/ ~t.IsCompleted)}
        /\ Len(ev.rows) = Cardinality(Range(ev.rows))
        /\ \A t \in Range(ev.rows) :
              /\ t.UserID = ev.user
              /\ ~(t.IsCompleted /\ ~t.IsRecurring)
        /\ \A t \in tasks :
              (t.UserID = ev.user /\ t.IsRecurring) => t \in Range(ev.rows)

\* the user owns a recurring row that is marked and a one-off row that is
\* completed, and the list holds the recurring row only
C36_Witness ==
    /\ ev.op = "ListActive" /\ ev.err = "none"
    /\ \E t \in tasks :
          t.UserID = ev.user /\ ~t.IsRecurring /\ t.IsCompleted
    /\ Len(ev.rows) = 1
    /\ ev.rows[1].IsRecurring /\ ev.rows[1].LastCompletedAt # <<>>

\* another user owns a recurring row, and the list does not hold it
C36_OthersLeftOut ==
    /\ ev.op = "ListActive" /\ ev.err = "none"
    /\ \E t \in tasks : t.UserID # ev.user /\ t.IsRecurring
    /\ Len(ev.rows) = 1
====
